---- MODULE Spec2Model ----
(***************************************************************************)
(* A model of fontscanner (src/unnamed/part_003, fontScanner.ts): the      *)
(* process-wide font cache, the synchronous scan, the batched asynchronous *)
(* scan and the cache operations; the metadata functions called on their   *)
(* own over truncated and damaged font files; and the chainable            *)
(* FontScanner filters.                                                    *)
(*                                                                         *)
(* Strings are sequences of UTF-16 code units (65 = "A", 46 = ".").  A     *)
(* path is a sequence of segments, each a string.  A value that may be     *)
(* null is a sequence of length 0 (null) or 1 (the value).  An object with *)
(* optional properties is a record that lacks the absent ones.             *)
(***************************************************************************)
EXTENDS Integers, Sequences, FiniteSets, TLC

VARIABLES
    clock,           \* what Date.now() returns
    fontCache,       \* part_003:14  FontEntry[] | null
    cacheTimestamp,  \* part_003:15
    fs,              \* outcome of the file-system calls on every path
    scans,           \* number of scans started so far
    syncCall,        \* the last synchronous scan: its options and what it returned
    async,           \* the asynchronous scans, by slot: locals and position
    freshDue,        \* history: clearFontCache() ran and no caching scan started since
    lastStored,      \* history: the caching scan that last went through the files
                     \* since the cache was cleared: its id, options and fonts
    disk,            \* the bytes of every file
    probe,           \* the last direct call of a metadata function and what it returned
    facade           \* a FontScanner object: its _filters, the calls made on it, its result

vars == <<clock, fontCache, cacheTimestamp, fs, scans, syncCall, async, freshDue,
          lastStored, disk, probe, facade>>

-----------------------------------------------------------------------------
(* Bounds of the model *)

MaxTicks == 2
MaxScans == 2
NumAsync == 2
MaxCalls == 3
MaxFiles == 101

-----------------------------------------------------------------------------
(* Program constants *)

CACHE_DURATION == 300000
batchSize == 50
DefaultMaxDepth == 3

Null == <<>>
Some(v) == <<v>>

\* A value declared with const and used more than once is written
\*   CHOOSE out \in {body : x \in {value}} : TRUE
\* which is body with x standing for the value, computed once.

\* The clock advances in steps of half the cache duration, so that an elapsed
\* time below, equal to and above CACHE_DURATION all occur.
TickStep == CACHE_DURATION \div 2

-----------------------------------------------------------------------------
(* Strings *)

ToLowerChar(c) == IF c \in 65..90 THEN c + 32 ELSE c

ToLowerCase(s) == [i \in 1..Len(s) |-> ToLowerChar(s[i])]

StartsWith(s, p) == Len(p) <= Len(s) /\ SubSeq(s, 1, Len(p)) = p

EndsWith(s, p) == Len(p) <= Len(s) /\ SubSeq(s, Len(s) - Len(p) + 1, Len(s)) = p

\* s.substring(n)
Substring(s, n) == SubSeq(s, n + 1, Len(s))

LastIndexOf(s, c) ==
    LET hits == {i \in 1..Len(s) : s[i] = c}
    IN  IF hits = {} THEN 0 ELSE CHOOSE i \in hits : \A j \in hits : j <= i

\* path.extname of a path whose last segment is base: from the last dot of the
\* base name to its end; empty when there is no dot, when the only dot is the
\* first character, and for "..".
ExtName(base) ==
    LET d == LastIndexOf(base, 46)
    IN  IF d = 0 \/ d = 1 \/ base = <<46, 46>> THEN <<>> ELSE SubSeq(base, d, Len(base))

\* path.basename(p, ext) of a path whose last segment is base: the suffix is
\* removed when the base name ends with it, compared character by character
\* (case-sensitively), and is not the whole base name.
BaseName(base, ext) ==
    IF Len(ext) > 0 /\ Len(ext) < Len(base) /\ EndsWith(base, ext)
    THEN SubSeq(base, 1, Len(base) - Len(ext))
    ELSE base

Last(s) == s[Len(s)]

\* path.join(dir, name)
Join(dir, name) == Append(dir, name)

-----------------------------------------------------------------------------
(* Names used by the file system of the model *)

s_usr == <<117, 115, 114>>
s_share == <<115, 104, 97, 114, 101>>
s_fonts == <<102, 111, 110, 116, 115>>
s_local == <<108, 111, 99, 97, 108>>
s_X11R6 == <<88, 49, 49, 82, 54>>
s_lib == <<108, 105, 98>>
s_X11 == <<88, 49, 49>>
s_home == <<104, 111, 109, 101>>
s_u == <<117>>
s_dotfonts == <<46, 102, 111, 110, 116, 115>>
s_dotlocal == <<46, 108, 111, 99, 97, 108>>
s_truetype == <<116, 114, 117, 101, 116, 121, 112, 101>>
s_A_ttf == <<65, 46, 116, 116, 102>>
s_B_OTF == <<66, 46, 79, 84, 70>>
s_C_woff == <<67, 46, 119, 111, 102, 102>>
s_fonts_dir == <<102, 111, 110, 116, 115, 46, 100, 105, 114>>
s_tmp == <<116, 109, 112>>
s_node_modules == <<110, 111, 100, 101, 95, 109, 111, 100, 117, 108, 101, 115>>
s_cache == <<99, 97, 99, 104, 101>>
s_temp == <<116, 101, 109, 112>>
s_deep == <<100, 101, 101, 112>>
s_d == <<100>>
s_loop == <<108, 111, 111, 112>>
s_self == <<115, 101, 108, 102>>
s_big == <<98, 105, 103>>

\* os.homedir()
home == <<s_home, s_u>>

\* part_003:9  FONT_EXTENSIONS
FONT_EXTENSIONS ==
    { <<46, 116, 116, 102>>,            \* .ttf
      <<46, 111, 116, 102>>,            \* .otf
      <<46, 119, 111, 102, 102>>,       \* .woff
      <<46, 119, 111, 102, 102, 50>>,   \* .woff2
      <<46, 116, 116, 99>>,             \* .ttc
      <<46, 102, 111, 110>>,            \* .fon
      <<46, 102, 110, 116>> }           \* .fnt

TableFormats == { <<46, 116, 116, 102>>, <<46, 111, 116, 102>>, <<46, 116, 116, 99>> }

SkippedDirNames == {s_node_modules, s_cache, s_tmp, s_temp}

-----------------------------------------------------------------------------
(* The file system the scans run against.                                  *)
(*   /usr/share/fonts            truetype/  A.ttf  fonts.dir               *)
(*   /usr/share/fonts/truetype   B.OTF                                     *)
(*   /home/u/.fonts              C.woff                                    *)
(*   /deep, /deep/d, /deep/d/d, ...   d/  A.ttf      without end: a tree of *)
(*                                    any depth, and what a cycle of        *)
(*                                    directories looks like to a walk      *)
(*   /loop                       self -> /loop (a symbolic link)  A.ttf     *)
(*   /big/<j, n>                 n font files                               *)
(* No other directory exists.                                              *)

SysFonts == <<s_usr, s_share, s_fonts>>
TrueTypeDir == <<s_usr, s_share, s_fonts, s_truetype>>
UserFonts == <<s_home, s_u, s_dotfonts>>

FileA == Join(SysFonts, s_A_ttf)
FileB == Join(TrueTypeDir, s_B_OTF)
FileC == Join(UserFonts, s_C_woff)
FileD == Join(SysFonts, s_fonts_dir)

Deep == <<s_deep>>
Loop == <<s_loop>>

\* /deep and the directories below it
UnderDeep(p) == Len(p) >= 1 /\ p[1] = s_deep /\ \A k \in 2..Len(p) : p[k] = s_d

\* The j-th directory of /big, which holds n font files, and the name of
\* file k in it
BigDir(j, n) == <<s_big, <<1000 + j, 2000 + n>>>>

BigFileName(k) == <<1000 + k, 46, 116, 116, 102>>

IsBigDir(p) == Len(p) = 2 /\ p[1] = s_big

\* The Dirent list readdir gives for a directory, in the order it gives it.
\* A Dirent is a directory, a file, or a symbolic link, which is neither.
Entries(dir) ==
    IF dir = SysFonts
    THEN << [name |-> s_truetype, kind |-> "dir"],
            [name |-> s_A_ttf, kind |-> "file"],
            [name |-> s_fonts_dir, kind |-> "file"] >>
    ELSE IF dir = TrueTypeDir THEN << [name |-> s_B_OTF, kind |-> "file"] >>
    ELSE IF dir = UserFonts THEN << [name |-> s_C_woff, kind |-> "file"] >>
    ELSE IF UnderDeep(dir)
    THEN << [name |-> s_d, kind |-> "dir"], [name |-> s_A_ttf, kind |-> "file"] >>
    ELSE IF dir = Loop
    THEN << [name |-> s_self, kind |-> "link"], [name |-> s_A_ttf, kind |-> "file"] >>
    ELSE IF IsBigDir(dir)
    THEN [k \in 1..(dir[2][2] - 2000) |-> [name |-> BigFileName(k), kind |-> "file"]]
    ELSE <<>>

\* The outcomes a file-system call on each path can have.  "ok", or the
\* errno of the failure.
Outcomes(p) ==
    IF p = FileA THEN {"ok", "ENOENT"}
    ELSE IF p = FileB THEN {"ok", "EACCES"}
    ELSE IF p = FileC THEN {"ok", "EIO"}
    ELSE IF p = TrueTypeDir THEN {"ok", "EACCES"}
    ELSE {"ok"}

FsPaths == {FileA, FileB, FileC, FileD, SysFonts, TrueTypeDir, UserFonts}

\* A file of a directory that cannot be read is never reached: its outcome is
\* fixed to that of the directory.
FsStates == {f \in [FsPaths -> {"ok", "ENOENT", "EACCES", "EIO"}] :
                /\ \A p \in FsPaths : f[p] \in Outcomes(p)
                /\ f[TrueTypeDir] = "EACCES" => f[FileB] = "EACCES"}

\* The directories of /deep, /loop and /big and the files in them can be
\* read; a path that is nowhere is missing.
Mounted(p) ==
    \/ UnderDeep(p) \/ p = Loop \/ IsBigDir(p)
    \/ Len(p) >= 2 /\ (UnderDeep(SubSeq(p, 1, Len(p) - 1)) \/ p[1] \in {s_loop, s_big})

Outcome(p) == IF p \in FsPaths THEN fs[p] ELSE IF Mounted(p) THEN "ok" ELSE "ENOENT"

\* The bytes of each file when the scans run.  A.ttf: a table directory with
\* one 'name' table holding one record, nameID 4, "Ab".  B.OTF: a zero-filled
\* 12-byte header.  C.woff: not a table-directory format.
DefaultContent(p) ==
    IF p = FileA
    THEN << 0, 1, 0, 0,  0, 1,  0, 0, 0, 0, 0, 0,
            110, 97, 109, 101,  0, 0, 0, 0,  0, 0, 0, 28,  0, 0, 0, 22,
            0, 0,  0, 1,  0, 18,
            0, 3,  0, 1,  4, 9,  0, 4,  0, 4,  0, 0,
            0, 65, 0, 98 >>
    ELSE IF p = FileB THEN << 0, 0, 0, 0, 0, 0, 0, 0, 0, 0, 0, 0 >>
    ELSE << 119, 79, 70, 70 >>

FontFiles == {FileA, FileB, FileC}

DefaultDisk == [p \in FontFiles |-> DefaultContent(p)]

\* fs.readFileSync(p) and fs.promises.readFile(p) of a readable file; the
\* files of /deep, /loop and /big are empty
Content(p) == IF p \in DOMAIN disk THEN disk[p] ELSE <<>>

\* stats.mtime of a file, in ms
MTime(p) == IF p = FileA THEN 1000 ELSE 2000

\* fs.existsSync(dir): true unless the path is missing
ExistsSync(dir) == Outcome(dir) # "ENOENT"

\* await fs.promises.access(dir): rejects when the path is missing
AccessRejects(dir) == Outcome(dir) = "ENOENT"

\* fs.readdirSync(dir, {withFileTypes: true}) and fs.promises.readdir: the
\* Dirent list, or an exception.
ReadDir(dir) ==
    IF Outcome(dir) = "ok"
    THEN [threw |-> FALSE, files |-> Entries(dir)]
    ELSE [threw |-> TRUE, files |-> <<>>]

-----------------------------------------------------------------------------
(* Directory resolution and traversal *)

RECURSIVE Dedupe(_)
\* [...new Set(dirs)]: the first occurrence of each element, in order
Dedupe(s) ==
    IF s = <<>> THEN <<>>
    ELSE LET init == Dedupe(SubSeq(s, 1, Len(s) - 1))
         IN  IF \E i \in 1..Len(init) : init[i] = Last(s) THEN init ELSE Append(init, Last(s))

\* getPlatformFontDirs on a platform that is neither win32 nor darwin
getPlatformFontDirs(options) ==
    LET custom == IF "customDirs" \in DOMAIN options THEN options.customDirs ELSE <<>>
        system == IF ~("includeSystemFonts" \in DOMAIN options /\ options.includeSystemFonts = FALSE)
                  THEN << SysFonts,
                          <<s_usr, s_local, s_share, s_fonts>>,
                          <<s_usr, s_X11R6, s_lib, s_X11, s_fonts>> >>
                  ELSE <<>>
        user == IF ~("includeUserFonts" \in DOMAIN options /\ options.includeUserFonts = FALSE)
                THEN << Join(home, s_dotfonts), home \o <<s_dotlocal, s_share, s_fonts>> >>
                ELSE <<>>
    IN  Dedupe(custom \o system \o user)

RECURSIVE walkDir(_, _, _)
RECURSIVE walkEntries(_, _, _, _, _)

\* The for loop of walkDir over the Dirent list, from entry k on.  Nothing in
\* the loop body throws; the inner catch only skips the entry.
walkEntries(dir, files, k, fileList, maxDepth) ==
    IF k > Len(files) THEN [threw |-> FALSE, fileList |-> fileList]
    ELSE LET file == files[k]
             fullPath == Join(dir, file.name)
         IN  IF file.kind = "dir"
             THEN IF ~StartsWith(file.name, <<46>>)
                     /\ ToLowerCase(file.name) \notin SkippedDirNames
                  THEN LET sub == walkDir(fullPath, fileList, maxDepth - 1)
                       IN  walkEntries(dir, files, k + 1, sub.fileList, maxDepth)
                  ELSE walkEntries(dir, files, k + 1, fileList, maxDepth)
             ELSE IF file.kind = "file"
             THEN IF ToLowerCase(ExtName(Last(fullPath))) \in FONT_EXTENSIONS
                  THEN walkEntries(dir, files, k + 1, Append(fileList, fullPath), maxDepth)
                  ELSE walkEntries(dir, files, k + 1, fileList, maxDepth)
             ELSE walkEntries(dir, files, k + 1, fileList, maxDepth)

\* walkDir without its outer try/catch: a failing readdir propagates
walkDirNoCatch(dir, fileList, maxDepth) ==
    IF maxDepth <= 0 THEN [threw |-> FALSE, fileList |-> fileList]
    ELSE LET r == ReadDir(dir)
         IN  IF r.threw THEN [threw |-> TRUE, fileList |-> fileList]
             ELSE walkEntries(dir, r.files, 1, fileList, maxDepth)

\* walkDir going one level further down
walkDirOneDeeper(dir, fileList, maxDepth) ==
    IF maxDepth < 0 THEN [threw |-> FALSE, fileList |-> fileList]
    ELSE LET r == ReadDir(dir)
         IN  IF r.threw THEN [threw |-> FALSE, fileList |-> fileList]
             ELSE walkEntries(dir, r.files, 1, fileList, maxDepth)

\* walkDir and walkDirAsync: the font files under dir appended to fileList;
\* a directory that cannot be read is skipped.
walkDir(dir, fileList, maxDepth) ==
    IF maxDepth <= 0 THEN [threw |-> FALSE, fileList |-> fileList]
    ELSE LET r == ReadDir(dir)
         IN  IF r.threw THEN [threw |-> FALSE, fileList |-> fileList]
             ELSE walkEntries(dir, r.files, 1, fileList, maxDepth)

RECURSIVE walkDirAsync(_, _, _)
RECURSIVE walkEntriesAsync(_, _, _, _, _)

\* The for loop of walkDirAsync over the Dirent list, from entry k on
walkEntriesAsync(dir, files, k, fileList, maxDepth) ==
    IF k > Len(files) THEN [threw |-> FALSE, fileList |-> fileList]
    ELSE LET file == files[k]
             fullPath == Join(dir, file.name)
         IN  IF file.kind = "dir"
             THEN IF ~StartsWith(file.name, <<46>>)
                     /\ ToLowerCase(file.name) \notin SkippedDirNames
                  THEN LET sub == walkDirAsync(fullPath, fileList, maxDepth - 1)
                       IN  walkEntriesAsync(dir, files, k + 1, sub.fileList, maxDepth)
                  ELSE walkEntriesAsync(dir, files, k + 1, fileList, maxDepth)
             ELSE IF file.kind = "file"
             THEN IF ToLowerCase(ExtName(Last(fullPath))) \in FONT_EXTENSIONS
                  THEN walkEntriesAsync(dir, files, k + 1, Append(fileList, fullPath), maxDepth)
                  ELSE walkEntriesAsync(dir, files, k + 1, fileList, maxDepth)
             ELSE walkEntriesAsync(dir, files, k + 1, fileList, maxDepth)

\* walkDirAsync: as walkDir, with every readdir awaited
walkDirAsync(dir, fileList, maxDepth) ==
    IF maxDepth <= 0 THEN [threw |-> FALSE, fileList |-> fileList]
    ELSE LET r == ReadDir(dir)
         IN  IF r.threw THEN [threw |-> FALSE, fileList |-> fileList]
             ELSE walkEntriesAsync(dir, r.files, 1, fileList, maxDepth)

-----------------------------------------------------------------------------
(* The table-directory parser *)

\* { ...a, ...b } and Object.assign(a, b)
Merge(a, b) == [k \in DOMAIN a \cup DOMAIN b |-> IF k \in DOMAIN b THEN b[k] ELSE a[k]]

\* An object with no property
Empty == [k \in {} |-> 0]

Truthy(obj, field) == field \in DOMAIN obj /\ obj[field] # <<>>

\* The bounds check of Buffer.readUInt16BE and readUInt32BE: a read of w bytes
\* at o outside the buffer throws ERR_OUT_OF_RANGE.
InRange(buffer, o, w) == 0 <= o /\ o + w <= Len(buffer)

\* buffer.readUInt16BE(o): the value, or null for the RangeError it throws
ReadUInt16BE(buffer, o) ==
    IF InRange(buffer, o, 2) THEN Some(buffer[o + 1] * 256 + buffer[o + 2]) ELSE Null

\* buffer.readUInt32BE(o): the value, or null for the RangeError it throws.
\* A value of 2^30 or more is given as 2^30: the parser compares the value
\* with 0 and, a small number added, with the length of a buffer below 2^30,
\* and neither comparison tells the two apart.
ReadUInt32BE(buffer, o) ==
    IF InRange(buffer, o, 4)
    THEN LET high == buffer[o + 1] * 256 + buffer[o + 2]
             low == buffer[o + 3] * 256 + buffer[o + 4]
         IN  Some(IF high >= 16384 THEN 16384 * 65536 ELSE high * 65536 + low)
    ELSE Null

\* buffer.slice(start, end) and the range of buffer.toString('ascii', start, end),
\* with 0 <= start: both ends are clamped to the buffer
Slice(buffer, start, end) ==
    LET e == IF end > Len(buffer) THEN Len(buffer) ELSE end
    IN  IF start >= e THEN <<>> ELSE SubSeq(buffer, start + 1, e)

RECURSIVE decodeFrom(_, _)
\* The loop of decodeUtf16BE with the two bytes of a unit swapped
decodeFromLittleEndian(buffer, i) ==
    IF i >= Len(buffer) - 1 THEN <<>>
    ELSE LET charCode == buffer[i + 2] * 256 + buffer[i + 1]
         IN  (IF charCode # 0 THEN <<charCode>> ELSE <<>>) \o decodeFrom(buffer, i + 2)

\* The loop of decodeUtf16BE, from byte i on
decodeFrom(buffer, i) ==
    IF i >= Len(buffer) - 1 THEN <<>>
    ELSE LET charCode == buffer[i + 1] * 256 + buffer[i + 2]
         IN  (IF charCode # 0 THEN <<charCode>> ELSE <<>>) \o decodeFrom(buffer, i + 2)

\* decodeUtf16BE: big-endian 16-bit code units, zero units skipped
decodeUtf16BE(buffer) == decodeFrom(buffer, 0)

\* The characters String.prototype.trim removes
IsWhiteSpace(c) ==
    \/ c \in {9, 10, 11, 12, 13, 32, 160, 5760, 8232, 8233, 8239, 8287, 12288, 65279}
    \/ c \in 8192..8202

Trim(s) ==
    LET keep == {i \in 1..Len(s) : ~IsWhiteSpace(s[i])}
    IN  IF keep = {} THEN <<>>
        ELSE SubSeq(s, CHOOSE i \in keep : \A j \in keep : i <= j,
                       CHOOSE i \in keep : \A j \in keep : j <= i)

\* .replace(/\0/g, '')
StripNul(s) == SelectSeq(s, LAMBDA c : c # 0)

\* What a table parser returns: its result object, and whether a read outside
\* the buffer was attempted on the way (the exception is caught by the parser).
Parsed(result, outOfRange) == [result |-> result, outOfRange |-> outOfRange]

\* The body of the loop of parseNameTable leaving a field that is set as it is
nameRecordKeepsFirst(buffer, stringOffset, recordOffset, result) ==
    LET nameID == ReadUInt16BE(buffer, recordOffset + 6)
        stringLength == ReadUInt16BE(buffer, recordOffset + 8)
        stringOffsetInTable == ReadUInt16BE(buffer, recordOffset + 10)
    IN  IF nameID = Null \/ stringLength = Null \/ stringOffsetInTable = Null
        THEN Parsed(result, TRUE)
        ELSE LET start == stringOffset + stringOffsetInTable[1]
                 nameStr == Trim(StripNul(decodeUtf16BE(
                                Slice(buffer, start, start + stringLength[1]))))
                 field == CASE nameID[1] = 1 -> "family"
                            [] nameID[1] = 4 -> "name"
                            [] nameID[1] = 5 -> "version"
                            [] nameID[1] = 0 -> "copyright"
                            [] OTHER -> ""
             IN  IF start + stringLength[1] <= Len(buffer) /\ nameStr # <<>> /\ field # ""
                    /\ field \notin DOMAIN result
                 THEN Parsed(Merge(result, [k \in {field} |-> nameStr]), FALSE)
                 ELSE Parsed(result, FALSE)

\* The body of the loop of parseNameTable for the record at recordOffset
nameRecord(buffer, stringOffset, recordOffset, result) ==
    LET nameID == ReadUInt16BE(buffer, recordOffset + 6)
        stringLength == ReadUInt16BE(buffer, recordOffset + 8)
        stringOffsetInTable == ReadUInt16BE(buffer, recordOffset + 10)
    IN  IF nameID = Null \/ stringLength = Null \/ stringOffsetInTable = Null
        THEN Parsed(result, TRUE)
        ELSE LET start == stringOffset + stringOffsetInTable[1]
                 nameStr == Trim(StripNul(decodeUtf16BE(
                                Slice(buffer, start, start + stringLength[1]))))
                 field == CASE nameID[1] = 1 -> "family"
                            [] nameID[1] = 4 -> "name"
                            [] nameID[1] = 5 -> "version"
                            [] nameID[1] = 0 -> "copyright"
                            [] OTHER -> ""
             IN  IF start + stringLength[1] <= Len(buffer) /\ nameStr # <<>> /\ field # ""
                 THEN Parsed(Merge(result, [k \in {field} |-> nameStr]), FALSE)
                 ELSE Parsed(result, FALSE)

RECURSIVE nameRecords(_, _, _, _, _, _)
\* The loop of parseNameTable over the records, from record j on; an
\* exception leaves the loop with the result so far
nameRecords(buffer, offset, count, stringOffset, j, result) ==
    IF j >= count THEN Parsed(result, FALSE)
    ELSE LET recordOffset == offset + 6 + j * 12
         IN  IF recordOffset + 12 > Len(buffer) THEN Parsed(result, FALSE)
             ELSE CHOOSE out \in {(IF r.outOfRange THEN r
                           ELSE nameRecords(buffer, offset, count, stringOffset, j + 1,
                                            r.result)) : r \in
                     {nameRecord(buffer, stringOffset, recordOffset, result)}} : TRUE

parseNameTable(buffer, offset) ==
    IF offset + 6 > Len(buffer) THEN Parsed(Empty, FALSE)
    ELSE LET count == ReadUInt16BE(buffer, offset + 2)
             rel == ReadUInt16BE(buffer, offset + 4)
         IN  IF count = Null \/ rel = Null THEN Parsed(Empty, TRUE)
             ELSE nameRecords(buffer, offset, count[1], offset + rel[1], 0, Empty)

\* parseOS2Table with a first guard of 4 bytes for 8
parseOS2TableShortGuard(buffer, offset) ==
    IF offset + 4 > Len(buffer) THEN Parsed(Empty, FALSE)
    ELSE LET weight == ReadUInt16BE(buffer, offset + 4)
             fsSelection == ReadUInt16BE(buffer, offset + 62)
             panoseData == Slice(buffer, offset + 32, offset + 42)
         IN  IF weight = Null THEN Parsed(Empty, TRUE)
             ELSE IF offset + 64 <= Len(buffer) /\ fsSelection = Null
             THEN Parsed([weight |-> weight[1]], TRUE)
             ELSE LET style == IF offset + 64 <= Len(buffer)
                               THEN [style |-> IF fsSelection[1] % 2 = 1
                                               THEN "italic" ELSE "normal"]
                               ELSE Empty
                      mono == IF offset + 42 <= Len(buffer)
                                 /\ Len(panoseData) >= 4 /\ panoseData[4] = 9
                              THEN [isMonospace |-> TRUE]
                              ELSE Empty
                  IN  Parsed(Merge(Merge([weight |-> weight[1]], style), mono),
                             offset + 42 <= Len(buffer) /\ Len(panoseData) < 4)

\* parseOS2Table with the weight brought into 100..900
parseOS2TableClamped(buffer, offset) ==
    IF offset + 8 > Len(buffer) THEN Parsed(Empty, FALSE)
    ELSE LET read == ReadUInt16BE(buffer, offset + 4)
             weight == IF read = Null THEN Null
                       ELSE Some(IF read[1] < 100 THEN 100
                                 ELSE IF read[1] > 900 THEN 900 ELSE read[1])
             fsSelection == ReadUInt16BE(buffer, offset + 62)
             panoseData == Slice(buffer, offset + 32, offset + 42)
         IN  IF weight = Null THEN Parsed(Empty, TRUE)
             ELSE IF offset + 64 <= Len(buffer) /\ fsSelection = Null
             THEN Parsed([weight |-> weight[1]], TRUE)
             ELSE LET style == IF offset + 64 <= Len(buffer)
                               THEN [style |-> IF fsSelection[1] % 2 = 1
                                               THEN "italic" ELSE "normal"]
                               ELSE Empty
                      mono == IF offset + 42 <= Len(buffer)
                                 /\ Len(panoseData) >= 4 /\ panoseData[4] = 9
                              THEN [isMonospace |-> TRUE]
                              ELSE Empty
                  IN  Parsed(Merge(Merge([weight |-> weight[1]], style), mono),
                             offset + 42 <= Len(buffer) /\ Len(panoseData) < 4)

parseOS2Table(buffer, offset) ==
    IF offset + 8 > Len(buffer) THEN Parsed(Empty, FALSE)
    ELSE LET weight == ReadUInt16BE(buffer, offset + 4)
             fsSelection == ReadUInt16BE(buffer, offset + 62)
             panoseData == Slice(buffer, offset + 32, offset + 42)
         IN  IF weight = Null THEN Parsed(Empty, TRUE)
             ELSE IF offset + 64 <= Len(buffer) /\ fsSelection = Null
             THEN Parsed([weight |-> weight[1]], TRUE)
             ELSE LET style == IF offset + 64 <= Len(buffer)
                               THEN [style |-> IF fsSelection[1] % 2 = 1
                                               THEN "italic" ELSE "normal"]
                               ELSE Empty
                      mono == IF offset + 42 <= Len(buffer)
                                 /\ Len(panoseData) >= 4 /\ panoseData[4] = 9
                              THEN [isMonospace |-> TRUE]
                              ELSE Empty
                  IN  Parsed(Merge(Merge([weight |-> weight[1]], style), mono),
                             offset + 42 <= Len(buffer) /\ Len(panoseData) < 4)

parsePostTable(buffer, offset) ==
    IF offset + 32 > Len(buffer) THEN Parsed(Empty, FALSE)
    ELSE LET isFixedPitch == ReadUInt32BE(buffer, offset + 12)
         IN  IF isFixedPitch = Null THEN Parsed(Empty, TRUE)
             ELSE IF isFixedPitch[1] # 0 THEN Parsed([isMonospace |-> TRUE], FALSE)
             ELSE Parsed(Empty, FALSE)

\* The body of the loop of parseTTFOTFFont for the directory entry at
\* tableOffset: the data of the table it names
tableData(buffer, tableOffset) ==
    LET tag == Slice(buffer, tableOffset, tableOffset + 4)
        tableDataOffset == ReadUInt32BE(buffer, tableOffset + 8)
        tableLength == ReadUInt32BE(buffer, tableOffset + 12)
    IN  IF tableDataOffset = Null \/ tableLength = Null THEN [threw |-> TRUE]
        ELSE Merge([threw |-> FALSE],
                   IF tag = <<110, 97, 109, 101>>
                   THEN parseNameTable(buffer, tableDataOffset[1])
                   ELSE IF tag = <<79, 83, 47, 50>>
                   THEN parseOS2Table(buffer, tableDataOffset[1])
                   ELSE IF tag = <<112, 111, 115, 116>>
                   THEN parsePostTable(buffer, tableDataOffset[1])
                   ELSE Parsed(Empty, FALSE))

RECURSIVE tableLoop(_, _, _, _, _)
\* The loop of parseTTFOTFFont over the table directory, from entry i on; an
\* exception in the loop itself makes the parser return null
tableLoop(buffer, numTables, i, metadata, outOfRange) ==
    IF i >= numTables THEN [value |-> Some(metadata), outOfRange |-> outOfRange]
    ELSE LET tableOffset == 12 + i * 16
         IN  IF tableOffset + 16 > Len(buffer)
             THEN [value |-> Some(metadata), outOfRange |-> outOfRange]
             ELSE CHOOSE out \in {(IF d.threw THEN [value |-> Null, outOfRange |-> TRUE]
                           ELSE tableLoop(buffer, numTables, i + 1,
                                          Merge(metadata, d.result),
                                          outOfRange \/ d.outOfRange)) : d \in
                     {tableData(buffer, tableOffset)}} : TRUE

\* parseTTFOTFFont: the metadata of the tables, or null for a buffer shorter
\* than 12 bytes and for an exception; and whether a read outside the buffer
\* was attempted by it or by a table parser
parseTTFOTFFont(buffer) ==
    IF Len(buffer) < 12 THEN [value |-> Null, outOfRange |-> FALSE]
    ELSE LET numTables == ReadUInt16BE(buffer, 4)
         IN  IF numTables = Null THEN [value |-> Null, outOfRange |-> TRUE]
             ELSE tableLoop(buffer, numTables[1], 0, Empty, FALSE)

-----------------------------------------------------------------------------
(* Metadata of one file *)

\* readFontMetadataSync without the filename fallback
readFontMetadataSyncNoFallback(fontPath) ==
    IF Outcome(fontPath) # "ok"
    THEN [threw |-> FALSE, message |-> "", value |-> Null]
    ELSE LET buffer == Content(fontPath)
             ext == ToLowerCase(ExtName(Last(fontPath)))
             baseMetadata == [path |-> fontPath, format |-> Substring(ext, 1),
                              fileSize |-> Len(buffer), lastModified |-> MTime(fontPath)]
         IN  CHOOSE out \in {([threw |-> FALSE, message |-> "",
                       value |-> IF ttfMetadata # Null /\ Truthy(ttfMetadata[1], "name")
                                 THEN Some(Merge(baseMetadata, ttfMetadata[1]))
                                 ELSE Null]) : ttfMetadata \in
                     {IF ext \in TableFormats THEN parseTTFOTFFont(buffer).value ELSE Null}} : TRUE

\* readFontMetadataSync with the filename fallback laid over the parsed fields
readFontMetadataSyncKeepsFields(fontPath) ==
    IF Outcome(fontPath) # "ok"
    THEN [threw |-> FALSE, message |-> "", value |-> Null]
    ELSE LET buffer == Content(fontPath)
             ext == ToLowerCase(ExtName(Last(fontPath)))
             baseMetadata == [path |-> fontPath, format |-> Substring(ext, 1),
                              fileSize |-> Len(buffer), lastModified |-> MTime(fontPath)]
             name == BaseName(Last(fontPath), ext)
         IN  CHOOSE out \in {([threw |-> FALSE, message |-> "",
                       value |-> IF ttfMetadata # Null /\ Truthy(ttfMetadata[1], "name")
                                 THEN Some(Merge(baseMetadata, ttfMetadata[1]))
                                 ELSE Some(Merge(Merge(baseMetadata,
                                                       IF ttfMetadata # Null
                                                       THEN ttfMetadata[1] ELSE Empty),
                                                 [name |-> name, family |-> name]))]) : ttfMetadata \in
                     {IF ext \in TableFormats THEN parseTTFOTFFont(buffer).value ELSE Null}} : TRUE

\* readFontMetadataSync: the metadata, or null when stat or readFile fails
readFontMetadataSync(fontPath) ==
    IF Outcome(fontPath) # "ok"
    THEN [threw |-> FALSE, message |-> "", value |-> Null]
    ELSE LET buffer == Content(fontPath)
             ext == ToLowerCase(ExtName(Last(fontPath)))
             baseMetadata == [path |-> fontPath, format |-> Substring(ext, 1),
                              fileSize |-> Len(buffer), lastModified |-> MTime(fontPath)]
             name == BaseName(Last(fontPath), ext)
         IN  CHOOSE out \in {([threw |-> FALSE, message |-> "",
                       value |-> IF ttfMetadata # Null /\ Truthy(ttfMetadata[1], "name")
                                 THEN Some(Merge(baseMetadata, ttfMetadata[1]))
                                 ELSE Some(Merge(baseMetadata,
                                                 [name |-> name, family |-> name]))]) : ttfMetadata \in
                     {IF ext \in TableFormats THEN parseTTFOTFFont(buffer).value ELSE Null}} : TRUE

\* readFontMetadataAsync without the filename fallback
readFontMetadataAsyncNoFallback(fontPath) ==
    IF Outcome(fontPath) # "ok"
    THEN [threw |-> FALSE, message |-> "", value |-> Null]
    ELSE LET buffer == Content(fontPath)
             ext == ToLowerCase(ExtName(Last(fontPath)))
             baseMetadata == [path |-> fontPath, format |-> Substring(ext, 1),
                              fileSize |-> Len(buffer), lastModified |-> MTime(fontPath)]
         IN  CHOOSE out \in {([threw |-> FALSE, message |-> "",
                       value |-> IF ttfMetadata # Null /\ Truthy(ttfMetadata[1], "name")
                                 THEN Some(Merge(baseMetadata, ttfMetadata[1]))
                                 ELSE Null]) : ttfMetadata \in
                     {IF ext \in TableFormats THEN parseTTFOTFFont(buffer).value ELSE Null}} : TRUE

\* readFontMetadataAsync: as readFontMetadataSync, with stat and readFile awaited
readFontMetadataAsync(fontPath) ==
    IF Outcome(fontPath) # "ok"
    THEN [threw |-> FALSE, message |-> "", value |-> Null]
    ELSE LET buffer == Content(fontPath)
             ext == ToLowerCase(ExtName(Last(fontPath)))
             baseMetadata == [path |-> fontPath, format |-> Substring(ext, 1),
                              fileSize |-> Len(buffer), lastModified |-> MTime(fontPath)]
             name == BaseName(Last(fontPath), ext)
         IN  CHOOSE out \in {([threw |-> FALSE, message |-> "",
                       value |-> IF ttfMetadata # Null /\ Truthy(ttfMetadata[1], "name")
                                 THEN Some(Merge(baseMetadata, ttfMetadata[1]))
                                 ELSE Some(Merge(baseMetadata,
                                                 [name |-> name, family |-> name]))]) : ttfMetadata \in
                     {IF ext \in TableFormats THEN parseTTFOTFFont(buffer).value ELSE Null}} : TRUE

-----------------------------------------------------------------------------
(* The cache *)

\* options.useCache !== false
useCacheEnabled(options) == ~("useCache" \in DOMAIN options /\ options.useCache = FALSE)

\* The cache check with <= for <
cacheCheckSyncInclusive(options, now) ==
    useCacheEnabled(options) /\ fontCache # Null /\ now - cacheTimestamp <= CACHE_DURATION

\* The cache check of getAllFontsWithResultSync
cacheCheckSync(options, now) ==
    useCacheEnabled(options) /\ fontCache # Null /\ now - cacheTimestamp < CACHE_DURATION

\* The cache check answering only a scan with the options of the scan that
\* stored the list
cacheCheckAsyncKeyed(options, now) ==
    /\ useCacheEnabled(options) /\ fontCache # Null /\ now - cacheTimestamp < CACHE_DURATION
    /\ options = lastStored.options

\* The cache check of getAllFontsWithResultAsync
cacheCheckAsync(options, now) ==
    useCacheEnabled(options) /\ fontCache # Null /\ now - cacheTimestamp < CACHE_DURATION

\* isCacheValid()
isCacheValid == fontCache # Null /\ clock - cacheTimestamp < CACHE_DURATION

\* getCachedFontCount(): fontCache?.length || 0
getCachedFontCount == IF fontCache # Null THEN Len(fontCache[1]) ELSE 0

\* No scan has stored a list
NoStore == [id |-> 0, options |-> [customDirs |-> <<>>], fonts |-> <<>>]

\* The cache update of a scan that started before the stored one left out
storeAsyncNewerOnly(options, fonts, now) ==
    IF useCacheEnabled(options) /\ (fontCache = Null \/ now >= cacheTimestamp)
    THEN [fontCache |-> Some(fonts), cacheTimestamp |-> now]
    ELSE [fontCache |-> fontCache, cacheTimestamp |-> cacheTimestamp]

\* What a scan returns on a cache hit
cachedResultSync(startTime, end) ==
    [fonts |-> fontCache[1], errors |-> <<>>,
     stats |-> [directoriesScanned |-> 0, filesProcessed |-> Len(fontCache[1]),
                fontsFound |-> Len(fontCache[1]), filesFailed |-> 0,
                scanTimeMs |-> end - startTime]]

\* The cached result with the counters left at zero
cachedResultAsyncZeroStats(startTime, end) ==
    [fonts |-> fontCache[1], errors |-> <<>>,
     stats |-> [directoriesScanned |-> 0, filesProcessed |-> 0,
                fontsFound |-> 0, filesFailed |-> 0,
                scanTimeMs |-> end - startTime]]

cachedResultAsync(startTime, end) ==
    [fonts |-> fontCache[1], errors |-> <<>>,
     stats |-> [directoriesScanned |-> 0, filesProcessed |-> Len(fontCache[1]),
                fontsFound |-> Len(fontCache[1]), filesFailed |-> 0,
                scanTimeMs |-> end - startTime]]

\* The cache after the "Update cache" step of a scan that found fonts
storeSync(options, fonts, now) ==
    IF useCacheEnabled(options)
    THEN [fontCache |-> Some(fonts), cacheTimestamp |-> now]
    ELSE [fontCache |-> fontCache, cacheTimestamp |-> cacheTimestamp]

\* The cache update writing the list and leaving the timestamp
storeAsyncListOnly(options, fonts, now) ==
    IF useCacheEnabled(options)
    THEN [fontCache |-> Some(fonts), cacheTimestamp |-> cacheTimestamp]
    ELSE [fontCache |-> fontCache, cacheTimestamp |-> cacheTimestamp]

\* The cache update without its useCache guard
storeAsyncAlways(options, fonts, now) ==
    [fontCache |-> Some(fonts), cacheTimestamp |-> now]

storeAsync(options, fonts, now) ==
    IF useCacheEnabled(options)
    THEN [fontCache |-> Some(fonts), cacheTimestamp |-> now]
    ELSE [fontCache |-> fontCache, cacheTimestamp |-> cacheTimestamp]

-----------------------------------------------------------------------------
(* The synchronous scan *)

\* The body of the for loop of getAllFontsWithResultSync for one file, after
\* filesProcessed++
syncFileResult(file) ==
    CHOOSE out \in {(IF metadata.threw
             THEN [success |-> FALSE,
                   error |-> [path |-> file, message |-> metadata.message,
                              code |-> "PARSE_ERROR"]]
             ELSE IF metadata.value # Null /\ Truthy(metadata.value[1], "name")
             THEN [success |-> TRUE, font |-> metadata.value[1]]
             ELSE [success |-> FALSE,
                   error |-> [path |-> file, message |-> "Failed to extract font metadata",
                              code |-> "PARSE_ERROR"]]) : metadata \in
                     {readFontMetadataSync(file)}} : TRUE

RECURSIVE syncFilesNoErrorPush(_, _, _)
\* syncFiles with errors.push left out of the failure branch
syncFilesNoErrorPush(fontFiles, k, acc) ==
    IF k > Len(fontFiles) THEN acc
    ELSE LET counted == [acc EXCEPT !.filesProcessed = @ + 1]
         IN  CHOOSE out \in {(syncFilesNoErrorPush(fontFiles, k + 1,
                          IF r.success
                          THEN [counted EXCEPT !.fonts = Append(@, r.font)]
                          ELSE [counted EXCEPT !.filesFailed = @ + 1])) : r \in
                     {syncFileResult(fontFiles[k])}} : TRUE

RECURSIVE syncFiles(_, _, _)
\* for (const file of fontFiles), from file k on
syncFiles(fontFiles, k, acc) ==
    IF k > Len(fontFiles) THEN acc
    ELSE LET counted == [acc EXCEPT !.filesProcessed = @ + 1]
         IN  CHOOSE out \in {(syncFiles(fontFiles, k + 1,
                          IF r.success
                          THEN [counted EXCEPT !.fonts = Append(@, r.font)]
                          ELSE [counted EXCEPT !.filesFailed = @ + 1,
                                               !.errors = Append(@, r.error)])) : r \in
                     {syncFileResult(fontFiles[k])}} : TRUE

RECURSIVE syncWalk(_, _, _)
\* fontDirs.forEach, from directory k on; an exception leaves the loop
syncWalk(fontDirs, k, acc) ==
    IF k > Len(fontDirs) \/ acc.threw THEN acc
    ELSE IF ExistsSync(fontDirs[k])
    THEN LET w == walkDir(fontDirs[k], acc.fontFiles, DefaultMaxDepth)
         IN  IF w.threw
             THEN [acc EXCEPT !.threw = TRUE, !.fontFiles = w.fileList]
             ELSE syncWalk(fontDirs, k + 1,
                           [acc EXCEPT !.fontFiles = w.fileList,
                                       !.directoriesScanned = @ + 1])
    ELSE syncWalk(fontDirs, k + 1, acc)

scanResult(fonts, errors, directoriesScanned, filesProcessed, filesFailed, startTime, end) ==
    [fonts |-> fonts, errors |-> errors,
     stats |-> [directoriesScanned |-> directoriesScanned, filesProcessed |-> filesProcessed,
                fontsFound |-> Len(fonts), filesFailed |-> filesFailed,
                scanTimeMs |-> end - startTime]]

\* The options the scans of the model are called with
ScanOptions ==
    { [customDirs |-> <<>>],
      [customDirs |-> <<>>, useCache |-> FALSE],
      [customDirs |-> <<TrueTypeDir>>, includeUserFonts |-> FALSE] }

\* How long a synchronous scan may take
SyncDurations == {0, TickStep}

NoCall ==
    [id |-> 0, options |-> [customDirs |-> <<>>], now |-> 0, fromCache |-> FALSE,
     threw |-> FALSE, fontFiles |-> <<>>, result |-> Null]

\* getAllFontsWithResultSync(options), the scan behind getFonts() and getResult();
\* the scan takes d ms.
getAllFontsWithResultSync(options, d) ==
    /\ scans < MaxScans
    /\ clock + d <= MaxTicks * TickStep
    /\ scans' = scans + 1
    /\ freshDue' = (freshDue /\ ~useCacheEnabled(options))
    /\ UNCHANGED <<fs, async, disk, probe, facade>>
    /\ LET startTime == clock
           now == clock
           call == [NoCall EXCEPT !.id = scans + 1, !.options = options, !.now = now]
       IN  IF cacheCheckSync(options, now)
           THEN /\ d = 0
                /\ syncCall' = [call EXCEPT !.fromCache = TRUE,
                                            !.result = Some(cachedResultSync(startTime, clock))]
                /\ UNCHANGED <<clock, fontCache, cacheTimestamp, lastStored>>
           ELSE \E walked \in {syncWalk(getPlatformFontDirs(options), 1,
                                        [threw |-> FALSE, fontFiles |-> <<>>,
                                         directoriesScanned |-> 0])} :
                \E acc \in {syncFiles(walked.fontFiles, 1,
                                      [fonts |-> <<>>, errors |-> <<>>,
                                       filesProcessed |-> 0, filesFailed |-> 0])} :
                \E stored \in {storeSync(options, acc.fonts, now)} :
                    /\ clock' = clock + d
                    /\ IF walked.threw
                       THEN /\ syncCall' = [call EXCEPT !.threw = TRUE,
                                                        !.fontFiles = walked.fontFiles]
                            /\ UNCHANGED <<fontCache, cacheTimestamp, lastStored>>
                       ELSE /\ syncCall' =
                                 [call EXCEPT !.fontFiles = walked.fontFiles,
                                              !.result = Some(scanResult(
                                                  acc.fonts, acc.errors,
                                                  walked.directoriesScanned,
                                                  acc.filesProcessed, acc.filesFailed,
                                                  startTime, clock + d))]
                            /\ fontCache' = stored.fontCache
                            /\ cacheTimestamp' = stored.cacheTimestamp
                            /\ lastStored' = IF useCacheEnabled(options)
                                             THEN [id |-> scans + 1, options |-> options,
                                                   fonts |-> acc.fonts]
                                             ELSE lastStored

-----------------------------------------------------------------------------
(* The asynchronous scan.  Code between two awaits runs as one step; the     *)
(* awaits of the directory loop (access and every readdir), which touch only *)
(* locals of the scan, are one step, and so are stat and readFile of a file. *)

AsyncIds == 1..NumAsync

IdleScan ==
    [pc |-> "idle", id |-> 0, options |-> [customDirs |-> <<>>], now |-> 0,
     fromCache |-> FALSE, threw |-> FALSE, fontDirs |-> <<>>, d |-> 0,
     directoriesScanned |-> 0, fontFiles |-> <<>>, i |-> 0, pending |-> {},
     batchResults |-> <<>>, fonts |-> <<>>, errors |-> <<>>,
     filesProcessed |-> 0, filesFailed |-> 0, result |-> Null]

\* The async callback of batch.map for one file, after filesProcessed++
asyncFileResult(file) ==
    CHOOSE out \in {(IF metadata.threw
             THEN [success |-> FALSE,
                   error |-> [path |-> file, message |-> metadata.message,
                              code |-> "PARSE_ERROR"]]
             ELSE IF metadata.value # Null /\ Truthy(metadata.value[1], "name")
             THEN [success |-> TRUE, font |-> metadata.value[1]]
             ELSE [success |-> FALSE,
                   error |-> [path |-> file, message |-> "Failed to extract font metadata",
                              code |-> "PARSE_ERROR"]]) : metadata \in
                     {readFontMetadataAsync(file)}} : TRUE

Min(a, b) == IF a < b THEN a ELSE b

\* collectBatch with filesFailed++ left out
collectBatchNoFailedCount(rec, k, hi) ==
    CHOOSE out \in {([rec EXCEPT
            !.fonts = @ \o [j \in 1..Len(split.ok) |-> split.ok[j].font],
            !.errors = @ \o [j \in 1..Len(split.failed) |-> split.failed[j].error]]) :
        split \in {[ok |-> SelectSeq(results, LAMBDA r : r.success),
                    failed |-> SelectSeq(results, LAMBDA r : ~r.success)] :
            results \in {[j \in 1..(hi - k + 1) |-> rec.batchResults[k + j - 1]]}}} : TRUE

\* for (const result of batchResults), over the results of files k to hi in
\* their order: fonts.push(result.font) for each success, filesFailed++ and
\* errors.push(result.error) for each of the others
collectBatch(rec, k, hi) ==
    CHOOSE out \in {([rec EXCEPT
            !.fonts = @ \o [j \in 1..Len(split.ok) |-> split.ok[j].font],
            !.filesFailed = @ + Len(split.failed),
            !.errors = @ \o [j \in 1..Len(split.failed) |-> split.failed[j].error]]) :
        split \in {[ok |-> SelectSeq(results, LAMBDA r : r.success),
                    failed |-> SelectSeq(results, LAMBDA r : ~r.success)] :
            results \in {[j \in 1..(hi - k + 1) |-> rec.batchResults[k + j - 1]]}}} : TRUE

\* The head of the batch loop issuing the reads of every file that is left
asyncBatchesAllAtOnce(rec) ==
    IF rec.i < Len(rec.fontFiles)
    THEN LET hi == Len(rec.fontFiles)
         IN  [rec EXCEPT !.pc = "read", !.pending = (rec.i + 1)..hi,
                         !.batchResults = <<>>,
                         !.filesProcessed = @ + (hi - rec.i)]
    ELSE [rec EXCEPT !.pc = "done",
                     !.result = Some(scanResult(rec.fonts, rec.errors, rec.directoriesScanned,
                                                rec.filesProcessed, rec.filesFailed,
                                                rec.now, clock))]

\* The head of the batch loop: the reads of the batch starting at rec.i are
\* issued (filesProcessed++ runs in every callback before its first await), or,
\* with no file left, the scan reaches its "Update cache" step and returns.
asyncBatches(rec) ==
    IF rec.i < Len(rec.fontFiles)
    THEN LET hi == Min(rec.i + batchSize, Len(rec.fontFiles))
         IN  [rec EXCEPT !.pc = "read", !.pending = (rec.i + 1)..hi,
                         !.batchResults = <<>>,
                         !.filesProcessed = @ + (hi - rec.i)]
    ELSE [rec EXCEPT !.pc = "done",
                     !.result = Some(scanResult(rec.fonts, rec.errors, rec.directoriesScanned,
                                                rec.filesProcessed, rec.filesFailed,
                                                rec.now, clock))]

\* The scan goes on from rec; when it reaches its end the cache is updated.
AsyncResume(i, rec) ==
    /\ async' = [async EXCEPT ![i] = rec]
    /\ IF rec.pc = "done"
       THEN LET stored == storeAsync(rec.options, rec.fonts, rec.now)
            IN  /\ fontCache' = stored.fontCache
                /\ cacheTimestamp' = stored.cacheTimestamp
                /\ lastStored' = IF useCacheEnabled(rec.options)
                                 THEN [id |-> rec.id, options |-> rec.options,
                                       fonts |-> rec.fonts]
                                 ELSE lastStored
       ELSE UNCHANGED <<fontCache, cacheTimestamp, lastStored>>

\* getAllFontsWithResultAsync(options) up to its first await
AsyncStart(i, options) ==
    /\ scans < MaxScans
    /\ async[i].pc \in {"idle", "done"}
    /\ \A j \in AsyncIds : j < i => async[j].pc \notin {"idle", "done"}
    /\ scans' = scans + 1
    /\ freshDue' = (freshDue /\ ~useCacheEnabled(options))
    /\ UNCHANGED <<clock, fs, syncCall, disk, probe, facade>>
    /\ LET now == clock
           call == [IdleScan EXCEPT !.id = scans + 1, !.options = options, !.now = now]
       IN  IF cacheCheckAsync(options, now)
           THEN /\ async' = [async EXCEPT ![i] =
                        [call EXCEPT !.pc = "done", !.fromCache = TRUE,
                                     !.result = Some(cachedResultAsync(now, clock))]]
                /\ UNCHANGED <<fontCache, cacheTimestamp, lastStored>>
           ELSE LET fontDirs == getPlatformFontDirs(options)
                    rec == [call EXCEPT !.pc = "walk", !.fontDirs = fontDirs, !.d = 1]
                IN  AsyncResume(i, IF fontDirs = <<>> THEN asyncBatches(rec) ELSE rec)

RECURSIVE asyncWalk(_)
\* for (const dir of fontDirs), from directory rec.d on: access and walkDirAsync
asyncWalk(rec) ==
    IF rec.d > Len(rec.fontDirs) THEN rec
    ELSE LET dir == rec.fontDirs[rec.d]
             w == walkDirAsync(dir, rec.fontFiles, DefaultMaxDepth)
             walked == IF AccessRejects(dir) THEN rec
                       ELSE IF w.threw THEN [rec EXCEPT !.fontFiles = w.fileList]
                       ELSE [rec EXCEPT !.fontFiles = w.fileList,
                                        !.directoriesScanned = @ + 1]
         IN  asyncWalk([walked EXCEPT !.d = @ + 1])

\* The awaits of the directory loop have completed
AsyncWalk(i) ==
    /\ async[i].pc = "walk"
    /\ UNCHANGED <<clock, fs, scans, syncCall, freshDue, disk, probe, facade>>
    /\ AsyncResume(i, asyncBatches(asyncWalk(async[i])))

\* The read of one file of the batch, any of those in flight, completes: its
\* callback returns
AsyncRead(i) ==
    /\ async[i].pc = "read"
    /\ UNCHANGED <<clock, fs, scans, syncCall, freshDue, lastStored, fontCache, cacheTimestamp, disk, probe, facade>>
    /\ \E k \in async[i].pending :
          LET rec == async[i]
              r == asyncFileResult(rec.fontFiles[k])
          IN  async' = [async EXCEPT ![i] =
                  [rec EXCEPT !.pending = @ \ {k},
                              !.batchResults = [j \in DOMAIN @ \cup {k} |->
                                                   IF j = k THEN r ELSE @[j]],
                              !.pc = IF rec.pending = {k} THEN "settled" ELSE "read"]]

\* Directories of /big that hold n font files between them, 10 in each but
\* the last
BigDirs(n) ==
    [j \in 1..((n + 9) \div 10) |-> BigDir(j, IF j * 10 <= n THEN 10 ELSE n - (j - 1) * 10)]

\* The scans over many files: one file fewer than a batch, a batch, one file
\* more, two batches, and MaxFiles
BatchOptions ==
    {[customDirs |-> BigDirs(n), includeSystemFonts |-> FALSE, includeUserFonts |-> FALSE] :
        n \in {batchSize - 1, batchSize, batchSize + 1, 2 * batchSize, MaxFiles}}

\* AsyncRead for those scans: of the reads in flight, the one issued first or
\* the one issued last completes.  The callbacks of a batch share no state,
\* so the reads still in flight are then a run of the batch, not any subset
\* of it.
AsyncReadInOrder(i) ==
    /\ async[i].pc = "read"
    /\ UNCHANGED <<clock, fs, scans, syncCall, freshDue, lastStored, fontCache, cacheTimestamp,
                   disk, probe, facade>>
    /\ \E k \in {n \in async[i].pending :
                     \/ \A m \in async[i].pending : n <= m
                     \/ \A m \in async[i].pending : m <= n} :
          LET rec == async[i]
              r == asyncFileResult(rec.fontFiles[k])
          IN  async' = [async EXCEPT ![i] =
                  [rec EXCEPT !.pending = @ \ {k},
                              !.batchResults = [j \in DOMAIN @ \cup {k} |->
                                                   IF j = k THEN r ELSE @[j]],
                              !.pc = IF rec.pending = {k} THEN "settled" ELSE "read"]]

\* Promise.all of the batch has resolved: its results are collected in the
\* order of the batch, and the loop goes on.
AsyncBatchDone(i) ==
    /\ async[i].pc = "settled"
    /\ UNCHANGED <<clock, fs, scans, syncCall, freshDue, disk, probe, facade>>
    /\ LET rec == async[i]
           hi == Min(rec.i + batchSize, Len(rec.fontFiles))
           collected == collectBatch(rec, rec.i + 1, hi)
       IN  AsyncResume(i, asyncBatches([collected EXCEPT !.i = @ + batchSize,
                                                         !.batchResults = <<>>]))

-----------------------------------------------------------------------------
(* The cache operations and the clock *)

\* clearFontCache() resetting the timestamp alone
clearTimestampOnly ==
    /\ cacheTimestamp' = 0
    /\ freshDue' = TRUE
    /\ lastStored' = NoStore
    /\ UNCHANGED <<fontCache, clock, fs, scans, syncCall, async, disk, probe, facade>>

\* clearFontCache()
clearFontCache ==
    /\ fontCache' = Null
    /\ cacheTimestamp' = 0
    /\ freshDue' = TRUE
    /\ lastStored' = NoStore
    /\ UNCHANGED <<clock, fs, scans, syncCall, async, disk, probe, facade>>

\* Time passes
Tick ==
    /\ clock + TickStep <= MaxTicks * TickStep
    /\ clock' = clock + TickStep
    /\ UNCHANGED <<fontCache, cacheTimestamp, fs, scans, syncCall, async, freshDue, lastStored, disk, probe, facade>>

-----------------------------------------------------------------------------

(* The metadata functions called on their own.  The font files hold, in     *)
(* turn, every truncation of a small font with a 'name', an 'OS/2' and a     *)
(* 'post' table, and copies of it with an offset, count or length field      *)
(* overwritten.                                                              *)

U16(n) == <<n \div 256, n % 256>>

U32(n) == U16(n \div 65536) \o U16(n % 65536)

Zeros(n) == [i \in 1..n |-> 0]

\* An entry of the table directory: tag, checksum, offset, length
DirEntry(tag, offset, length) == tag \o Zeros(4) \o U32(offset) \o U32(length)

\* A record of the name table: platformID 3, encodingID 1, languageID 0x0409
NameRecord(nameID, length, offset) ==
    U16(3) \o U16(1) \o U16(1033) \o U16(nameID) \o U16(length) \o U16(offset)

\* A name table with the family "Cd" and, with hasName, the full name "Ab";
\* without it the second record is the PostScript name (nameID 6)
NameTable(hasName) ==
    U16(0) \o U16(2) \o U16(30)
      \o NameRecord(1, 4, 0) \o NameRecord(IF hasName THEN 4 ELSE 6, 4, 4)
      \o <<0, 67, 0, 100>> \o <<0, 65, 0, 98>>

\* An OS/2 table, version 0: usWeightClass 700 at 4, the PANOSE proportion at
\* 32 + 3, fsSelection 1 (italic) at 62
OS2Table(proportion) ==
    [i \in 1..78 |-> CASE i = 5 -> 2
                       [] i = 6 -> 188
                       [] i = 36 -> proportion
                       [] i = 64 -> 1
                       [] OTHER -> 0]

\* A post table: isFixedPitch at 12
PostTable(isFixedPitch) == [i \in 1..32 |-> IF i = 16 THEN isFixedPitch ELSE 0]

TestFont(hasName, proportion, isFixedPitch) ==
    <<0, 1, 0, 0>> \o U16(3) \o Zeros(6)
      \o DirEntry(<<110, 97, 109, 101>>, 60, 38)
      \o DirEntry(<<79, 83, 47, 50>>, 98, 78)
      \o DirEntry(<<112, 111, 115, 116>>, 176, 32)
      \o NameTable(hasName) \o OS2Table(proportion) \o PostTable(isFixedPitch)

TestFonts ==
    {TestFont(hasName, proportion, isFixedPitch) :
        hasName \in BOOLEAN, proportion \in {0, 9}, isFixedPitch \in {0, 1}}

Overwrite(buffer, pos, bytes) ==
    [i \in 1..Len(buffer) |->
        IF i > pos /\ i <= pos + Len(bytes) THEN bytes[i - pos] ELSE buffer[i]]

\* The fields of a test font that hold a count, an offset or a length, and the
\* values written over them
DamagedFonts ==
    LET font == TestFont(TRUE, 9, 1)
    IN  {Overwrite(font, pos, bytes) :
            pos \in {4, 62, 64, 74, 76, 86, 88}, bytes \in {<<255, 255>>, <<0, 200>>}}
        \cup
        {Overwrite(font, pos, bytes) :
            pos \in {20, 36, 52},
            bytes \in {<<255, 255, 255, 255>>, U32(207), U32(202), U32(170), U32(0)}}

\* The strings of the name records: "Ab"; " X", a zero unit, "y" and a tab;
\* U+0100 and half a surrogate pair; "C" and one byte more; no byte; and a
\* space and a zero unit
NameBytes ==
    { <<0, 65, 0, 98>>,
      <<0, 32, 0, 88, 0, 0, 0, 121, 0, 9>>,
      <<1, 0, 216, 61>>,
      <<0, 67, 0>>,
      <<>>,
      <<0, 32, 0, 0>> }

\* The name records of the fonts that hold a name table alone: the nameID,
\* the bytes of the string, and whether the record points inside the file
Records ==
    {[nameID |-> n, bytes |-> b, inside |-> TRUE] : n \in {0, 1, 4, 5, 6}, b \in NameBytes}
    \cup {[nameID |-> n, bytes |-> <<0, 65, 0, 98>>, inside |-> FALSE] : n \in {0, 1, 4, 5, 6}}

RECURSIVE NameStorage(_)
\* The string storage of a name table: the strings of the records that point
\* inside the file, one after the other
NameStorage(recs) ==
    IF recs = <<>> THEN <<>>
    ELSE NameStorage(SubSeq(recs, 1, Len(recs) - 1))
           \o (IF Last(recs).inside THEN Last(recs).bytes ELSE <<>>)

RECURSIVE NameRecordList(_, _)
\* The records of a name table, from record k on; a record that points
\* outside the file has the string offset 60000
NameRecordList(recs, k) ==
    IF k > Len(recs) THEN <<>>
    ELSE NameRecord(recs[k].nameID, Len(recs[k].bytes),
                    IF recs[k].inside THEN Len(NameStorage(SubSeq(recs, 1, k - 1)))
                    ELSE 60000)
           \o NameRecordList(recs, k + 1)

\* A name table with the records recs
NameTableOf(recs) ==
    U16(0) \o U16(Len(recs)) \o U16(6 + 12 * Len(recs))
      \o NameRecordList(recs, 1) \o NameStorage(recs)

\* A font whose table directory lists one table, at offset 28
OneTableFont(tag, table) ==
    <<0, 1, 0, 0>> \o U16(1) \o Zeros(6) \o DirEntry(tag, 28, Len(table)) \o table

\* A font whose table directory lists two tables, the first at offset 44
TwoTableFont(tag1, table1, tag2, table2) ==
    <<0, 1, 0, 0>> \o U16(2) \o Zeros(6)
      \o DirEntry(tag1, 44, Len(table1)) \o DirEntry(tag2, 44 + Len(table1), Len(table2))
      \o table1 \o table2

\* The fonts that hold a name table alone, of one or of two records
NameFont(recs) == OneTableFont(<<110, 97, 109, 101>>, NameTableOf(recs))

NameFonts ==
    {NameFont(<<r>>) : r \in Records} \cup {NameFont(<<r, q>>) : r, q \in Records}

\* An OS/2 table, version 0: usWeightClass at 4, the PANOSE proportion at
\* 32 + 3, fsSelection at 62
OS2TableOf(weight, proportion, fsSelection) ==
    [i \in 1..78 |-> CASE i = 5 -> weight \div 256
                       [] i = 6 -> weight % 256
                       [] i = 36 -> proportion
                       [] i = 63 -> fsSelection \div 256
                       [] i = 64 -> fsSelection % 256
                       [] OTHER -> 0]

\* The fonts that hold an OS/2 table alone, whole and cut short: weights
\* inside and outside 100..900; fsSelection with bit 0 (italic), bit 9
\* (oblique) and bit 5 (bold) set and clear
OS2Fonts ==
    {SubSeq(OneTableFont(<<79, 83, 47, 50>>, OS2TableOf(weight, 0, fsSelection)), 1, n) :
        weight \in {0, 50, 400, 1000, 65535}, fsSelection \in {0, 1, 32, 512, 513},
        n \in (28..36) \cup {69, 70, 91, 92, 106}}

\* The fonts whose table directory lists the same tag twice: two name
\* tables, two OS/2 tables, two post tables, with different contents
TagFonts ==
    {TwoTableFont(<<110, 97, 109, 101>>, NameTableOf(<<r>>),
                  <<110, 97, 109, 101>>, NameTableOf(<<q>>)) :
        r, q \in {rec \in Records : rec.inside /\ rec.nameID \in {1, 4}
                                     /\ rec.bytes \in {<<0, 65, 0, 98>>, <<0, 67, 0>>}}}
    \cup
    {TwoTableFont(<<79, 83, 47, 50>>, OS2TableOf(w1, p1, 0),
                  <<79, 83, 47, 50>>, OS2TableOf(w2, p2, 1)) :
        w1, w2 \in {400, 700}, p1, p2 \in {0, 9}}
    \cup
    {TwoTableFont(<<112, 111, 115, 116>>, PostTable(f1),
                  <<112, 111, 115, 116>>, PostTable(f2)) : f1, f2 \in {0, 1}}

Buffers ==
    {SubSeq(font, 1, n) : font \in TestFonts, n \in 0..208} \cup DamagedFonts
      \cup NameFonts \cup OS2Fonts \cup TagFonts

NoProbe == [op |-> "none"]

\* readFontMetadataSync(fontPath) is called
ReadMetadataSync(fontPath) ==
    /\ probe' = [op |-> "readFontMetadataSync", path |-> fontPath,
                 returned |-> readFontMetadataSync(fontPath)]
    /\ UNCHANGED <<clock, fontCache, cacheTimestamp, fs, scans, syncCall, async, freshDue, lastStored,
                   disk, facade>>

\* readFontMetadataAsync(fontPath) is called and settles
ReadMetadataAsync(fontPath) ==
    /\ probe' = [op |-> "readFontMetadataAsync", path |-> fontPath,
                 returned |-> readFontMetadataAsync(fontPath)]
    /\ UNCHANGED <<clock, fontCache, cacheTimestamp, fs, scans, syncCall, async, freshDue, lastStored,
                   disk, facade>>

\* parseTTFOTFFont(buffer) is called with the bytes of a file
ParseFont(fontPath) ==
    /\ probe' = [op |-> "parseTTFOTFFont", path |-> fontPath,
                 returned |-> parseTTFOTFFont(Content(fontPath))]
    /\ UNCHANGED <<clock, fontCache, cacheTimestamp, fs, scans, syncCall, async, freshDue, lastStored,
                   disk, facade>>

-----------------------------------------------------------------------------
(* The FontScanner class: _filters holds at most one format, one weight, the *)
(* monospace flag and one name search.  calls is the history of the filter   *)
(* calls made on the object, fonts the list its scan returns, returned what  *)
(* the last getFonts() gave if no filter was called since.                   *)

\* s.includes(q)
Includes(s, q) == \E i \in 0..(Len(s) - Len(q)) : SubSeq(s, i + 1, i + Len(q)) = q

filterByFormat(filters, format) == Merge(filters, [format |-> ToLowerCase(format)])

\* filterByWeight also dropping the format filter
filterByWeightResetsFormat(filters, weight) ==
    [k \in (DOMAIN filters \ {"format"}) \cup {"weight"} |->
        IF k = "weight" THEN weight ELSE filters[k]]

filterByWeight(filters, weight) == Merge(filters, [weight |-> weight])

onlyMonospace(filters) == Merge(filters, [monospaceOnly |-> TRUE])

searchByName(filters, query) ==
    Merge(filters, [nameSearch |-> [query |-> query, exact |-> FALSE]])

matchNameExactly(filters, name) ==
    Merge(filters, [nameSearch |-> [query |-> name, exact |-> TRUE]])

\* _applyFilters with the name filters looking at the name alone
applyFiltersNameOnly(filters, fonts) ==
    LET byFormat ==
            IF Truthy(filters, "format")
            THEN SelectSeq(fonts, LAMBDA font :
                     "format" \in DOMAIN font /\ ToLowerCase(font.format) = filters.format)
            ELSE fonts
        byWeight ==
            IF "weight" \in DOMAIN filters
            THEN SelectSeq(byFormat, LAMBDA font :
                     "weight" \in DOMAIN font /\ font.weight = filters.weight)
            ELSE byFormat
        byMonospace ==
            IF "monospaceOnly" \in DOMAIN filters /\ filters.monospaceOnly
            THEN SelectSeq(byWeight, LAMBDA font :
                     "isMonospace" \in DOMAIN font /\ font.isMonospace = TRUE)
            ELSE byWeight
    IN  IF "nameSearch" \notin DOMAIN filters THEN byMonospace
        ELSE IF filters.nameSearch.exact
        THEN SelectSeq(byMonospace, LAMBDA font :
                 ToLowerCase(font.name) = ToLowerCase(filters.nameSearch.query))
        ELSE SelectSeq(byMonospace, LAMBDA font :
                 Includes(ToLowerCase(font.name), ToLowerCase(filters.nameSearch.query)))

\* _applyFilters(fonts)
applyFilters(filters, fonts) ==
    LET byFormat ==
            IF Truthy(filters, "format")
            THEN SelectSeq(fonts, LAMBDA font :
                     "format" \in DOMAIN font /\ ToLowerCase(font.format) = filters.format)
            ELSE fonts
        byWeight ==
            IF "weight" \in DOMAIN filters
            THEN SelectSeq(byFormat, LAMBDA font :
                     "weight" \in DOMAIN font /\ font.weight = filters.weight)
            ELSE byFormat
        byMonospace ==
            IF "monospaceOnly" \in DOMAIN filters /\ filters.monospaceOnly
            THEN SelectSeq(byWeight, LAMBDA font :
                     "isMonospace" \in DOMAIN font /\ font.isMonospace = TRUE)
            ELSE byWeight
    IN  IF "nameSearch" \notin DOMAIN filters THEN byMonospace
        ELSE IF filters.nameSearch.exact
        THEN SelectSeq(byMonospace, LAMBDA font :
                 \/ ToLowerCase(font.name) = ToLowerCase(filters.nameSearch.query)
                 \/ /\ "family" \in DOMAIN font
                    /\ ToLowerCase(font.family) = ToLowerCase(filters.nameSearch.query))
        ELSE SelectSeq(byMonospace, LAMBDA font :
                 \/ Includes(ToLowerCase(font.name), ToLowerCase(filters.nameSearch.query))
                 \/ /\ "family" \in DOMAIN font
                    /\ Includes(ToLowerCase(font.family),
                                ToLowerCase(filters.nameSearch.query)))

\* new FontScanner(): no filter
NoScanner == [filters |-> Empty, calls |-> <<>>, fonts |-> <<>>, returned |-> Null]

\* The arguments the filters are called with: "ttf", "TTF", "otf"; 400, 700;
\* "b", "AB", "Cd"
Formats == { <<116, 116, 102>>, <<84, 84, 70>>, <<111, 116, 102>> }

Weights == {400, 700}

Queries == { <<98>>, <<65, 66>>, <<67, 100>> }

\* A list a scan returns: "Ab" of family "Cd"; "Cd" without a family; "C",
\* named after its file; "Xy" of family "AB"
ScannedFonts ==
    << [path |-> FileA, name |-> <<65, 98>>, family |-> <<67, 100>>,
        format |-> <<116, 116, 102>>, weight |-> 400, style |-> "normal"],
       [path |-> FileB, name |-> <<67, 100>>,
        format |-> <<111, 116, 102>>, weight |-> 700, isMonospace |-> TRUE],
       [path |-> FileC, name |-> <<67>>, family |-> <<67>>,
        format |-> <<119, 111, 102, 102>>],
       [path |-> Join(UserFonts, <<88, 46, 116, 116, 102>>), name |-> <<88, 121>>,
        family |-> <<65, 66>>, format |-> <<116, 116, 102>>, weight |-> 700,
        isMonospace |-> TRUE] >>

\* The object after a filter method set _filters and returned this
Called(scanner, method, arg, filters) ==
    [scanner EXCEPT !.filters = filters,
                    !.calls = Append(@, [method |-> method, arg |-> arg]),
                    !.returned = Null]

FilterByFormat(format) ==
    /\ Len(facade.calls) < MaxCalls
    /\ facade' = Called(facade, "filterByFormat", format, filterByFormat(facade.filters, format))
    /\ UNCHANGED <<clock, fontCache, cacheTimestamp, fs, scans, syncCall, async, freshDue, lastStored,
                   disk, probe>>

FilterByWeight(weight) ==
    /\ Len(facade.calls) < MaxCalls
    /\ facade' = Called(facade, "filterByWeight", <<weight>>, filterByWeight(facade.filters, weight))
    /\ UNCHANGED <<clock, fontCache, cacheTimestamp, fs, scans, syncCall, async, freshDue, lastStored,
                   disk, probe>>

OnlyMonospace ==
    /\ Len(facade.calls) < MaxCalls
    /\ facade' = Called(facade, "onlyMonospace", <<>>, onlyMonospace(facade.filters))
    /\ UNCHANGED <<clock, fontCache, cacheTimestamp, fs, scans, syncCall, async, freshDue, lastStored,
                   disk, probe>>

SearchByName(query) ==
    /\ Len(facade.calls) < MaxCalls
    /\ facade' = Called(facade, "searchByName", query, searchByName(facade.filters, query))
    /\ UNCHANGED <<clock, fontCache, cacheTimestamp, fs, scans, syncCall, async, freshDue, lastStored,
                   disk, probe>>

MatchNameExactly(name) ==
    /\ Len(facade.calls) < MaxCalls
    /\ facade' = Called(facade, "matchNameExactly", name, matchNameExactly(facade.filters, name))
    /\ UNCHANGED <<clock, fontCache, cacheTimestamp, fs, scans, syncCall, async, freshDue, lastStored,
                   disk, probe>>

\* getFonts(), and the filtering of getFontsAsync(), getResult() and
\* getResultAsync(): the filters applied to the list the scan returned
GetFonts ==
    /\ facade.returned = Null
    /\ facade' = [facade EXCEPT !.returned = Some(applyFilters(facade.filters, facade.fonts))]
    /\ UNCHANGED <<clock, fontCache, cacheTimestamp, fs, scans, syncCall, async, freshDue, lastStored,
                   disk, probe>>

\* getResult() filtering the array of the scan in place
getResultInPlace(filters, result) ==
    [returned |-> [result EXCEPT !.fonts = applyFilters(filters, result.fonts)],
     array |-> applyFilters(filters, result.fonts)]

\* getResult() and getResultAsync() after the scan returned result:
\* result.fonts = this._applyFilters(result.fonts).  returned is the object
\* handed to the caller; array is what the array that result.fonts referred to
\* before the assignment holds afterwards: Array.prototype.filter builds a
\* new array each time and leaves that one as it was
getResult(filters, result) ==
    [returned |-> [result EXCEPT !.fonts = applyFilters(filters, result.fonts)],
     array |-> result.fonts]

\* The filters of the scanners that ask for a result: none, format "ttf",
\* format "otf", name containing "b", monospace only
ResultFilters ==
    {Empty, filterByFormat(Empty, <<84, 84, 70>>), filterByFormat(Empty, <<111, 116, 102>>),
     searchByName(Empty, <<98>>), onlyMonospace(Empty)}

\* new FontScanner(options) with its filters set; scan and scanned: the scan
\* behind the last result and what that scan returned (history)
ResultScanner(options, filters) ==
    [filters |-> filters, calls |-> <<>>, fonts |-> <<>>, returned |-> Null,
     options |-> options, scan |-> 0, scanned |-> Null]

\* The object after getResult() or getResultAsync() returned
Returned(scanner, method, scan, scanned, returned) ==
    [scanner EXCEPT !.calls = Append(@, [method |-> method, arg |-> <<>>]),
                    !.fonts = scanned.fonts,
                    !.scan = scan,
                    !.scanned = Some(scanned),
                    !.returned = Some(returned)]

\* getResult(): getAllFontsWithResultSync(this._options), which takes d ms,
\* and the filtering of its result.  On a cache hit, and after a scan that
\* updated the cache, result.fonts is the array fontCache refers to.
GetResult(d) ==
    /\ scans < MaxScans
    /\ clock + d <= MaxTicks * TickStep
    /\ scans' = scans + 1
    /\ freshDue' = (freshDue /\ ~useCacheEnabled(facade.options))
    /\ UNCHANGED <<fs, async, disk, probe>>
    /\ LET options == facade.options
           startTime == clock
           now == clock
           call == [NoCall EXCEPT !.id = scans + 1, !.options = options, !.now = now]
       IN  IF cacheCheckSync(options, now)
           THEN \E result \in {cachedResultSync(startTime, clock)} :
                \E applied \in {getResult(facade.filters, result)} :
                    /\ d = 0
                    /\ syncCall' = [call EXCEPT !.fromCache = TRUE, !.result = Some(result)]
                    /\ facade' = Returned(facade, "getResult", scans + 1, result,
                                          applied.returned)
                    /\ fontCache' = Some(applied.array)
                    /\ UNCHANGED <<clock, cacheTimestamp, lastStored>>
           ELSE \E walked \in {syncWalk(getPlatformFontDirs(options), 1,
                                        [threw |-> FALSE, fontFiles |-> <<>>,
                                         directoriesScanned |-> 0])} :
                \E acc \in {syncFiles(walked.fontFiles, 1,
                                      [fonts |-> <<>>, errors |-> <<>>,
                                       filesProcessed |-> 0, filesFailed |-> 0])} :
                \E stored \in {storeSync(options, acc.fonts, now)} :
                \E result \in {scanResult(acc.fonts, acc.errors, walked.directoriesScanned,
                                          acc.filesProcessed, acc.filesFailed,
                                          startTime, clock + d)} :
                \E applied \in {getResult(facade.filters, result)} :
                    /\ clock' = clock + d
                    /\ IF walked.threw
                       THEN /\ syncCall' = [call EXCEPT !.threw = TRUE,
                                                        !.fontFiles = walked.fontFiles]
                            /\ UNCHANGED <<fontCache, cacheTimestamp, lastStored, facade>>
                       ELSE /\ syncCall' = [call EXCEPT !.fontFiles = walked.fontFiles,
                                                        !.result = Some(result)]
                            /\ facade' = Returned(facade, "getResult", scans + 1, result,
                                                  applied.returned)
                            /\ fontCache' = IF useCacheEnabled(options)
                                            THEN Some(applied.array)
                                            ELSE stored.fontCache
                            /\ cacheTimestamp' = stored.cacheTimestamp
                            /\ lastStored' = IF useCacheEnabled(options)
                                             THEN [id |-> scans + 1, options |-> options,
                                                   fonts |-> acc.fonts]
                                             ELSE lastStored

\* getResultAsync() calls getAllFontsWithResultAsync(this._options)
GetResultAsync(i) ==
    /\ facade.scan # async[i].id \/ async[i].pc = "idle"
    /\ AsyncStart(i, facade.options)

\* getResultAsync() after its await: scan i has returned and its result is
\* filtered.  result.fonts is the array fontCache refers to if the scan took
\* it from the cache or put it there and the cache has not been given another
\* array since; the cache holding the same list stands for that here.
GetResultAsyncReturn(i) ==
    /\ async[i].pc = "done"
    /\ ~async[i].threw
    /\ facade.scan # async[i].id
    /\ \E result \in {async[i].result[1]} :
       \E applied \in {getResult(facade.filters, result)} :
          /\ facade' = Returned(facade, "getResultAsync", async[i].id, result,
                                applied.returned)
          /\ fontCache' = IF /\ async[i].fromCache \/ useCacheEnabled(async[i].options)
                             /\ fontCache = Some(result.fonts)
                          THEN Some(applied.array)
                          ELSE fontCache
    /\ UNCHANGED <<clock, cacheTimestamp, fs, scans, syncCall, async, freshDue, lastStored,
                   disk, probe>>

\* walkDir(dir, fileList, maxDepth) is called with an empty list
WalkDir(dir, maxDepth) ==
    /\ probe' = [op |-> "walkDir", dir |-> dir, maxDepth |-> maxDepth,
                 returned |-> walkDir(dir, <<>>, maxDepth).fileList]
    /\ UNCHANGED <<clock, fontCache, cacheTimestamp, fs, scans, syncCall, async, freshDue,
                   lastStored, disk, facade>>

\* walkDirAsync(dir, fileList, maxDepth) is called with an empty list and
\* settles
WalkDirAsync(dir, maxDepth) ==
    /\ probe' = [op |-> "walkDirAsync", dir |-> dir, maxDepth |-> maxDepth,
                 returned |-> walkDirAsync(dir, <<>>, maxDepth).fileList]
    /\ UNCHANGED <<clock, fontCache, cacheTimestamp, fs, scans, syncCall, async, freshDue,
                   lastStored, disk, facade>>

\* The directories the walks of the model start from; the last one is missing
WalkRoots ==
    {SysFonts, TrueTypeDir, UserFonts, Deep, Deep \o <<s_d, s_d>>, Loop, BigDir(1, 3),
     <<s_usr, s_local, s_share, s_fonts>>}

\* The module as loaded: no cache, no scan started
ModuleLoaded ==
    /\ clock = 0
    /\ fontCache = Null
    /\ cacheTimestamp = 0
    /\ scans = 0
    /\ syncCall = NoCall
    /\ async = [i \in AsyncIds |-> IdleScan]
    /\ freshDue = FALSE
    /\ lastStored = NoStore

Init ==
    /\ ModuleLoaded
    /\ fs \in FsStates
    /\ disk = DefaultDisk
    /\ probe = NoProbe
    /\ facade = NoScanner

Next ==
    \/ Tick
    \/ clearFontCache
    \/ \E options \in ScanOptions, d \in SyncDurations : getAllFontsWithResultSync(options, d)
    \/ \E i \in AsyncIds, options \in ScanOptions : AsyncStart(i, options)
    \/ \E i \in AsyncIds : AsyncWalk(i)
    \/ \E i \in AsyncIds : AsyncRead(i)
    \/ \E i \in AsyncIds : AsyncBatchDone(i)

Spec == Init /\ [][Next]_vars

\* The metadata functions on their own: A.ttf may be missing, and the three
\* font files hold the same bytes
ProbeInit ==
    /\ ModuleLoaded
    /\ fs \in {f \in FsStates : \A p \in FsPaths \ {FileA} : f[p] = "ok"}
    /\ \E buffer \in Buffers : disk = [p \in FontFiles |-> buffer]
    /\ probe = NoProbe
    /\ facade = NoScanner

ProbeNext ==
    \/ \E fontPath \in FontFiles : ReadMetadataSync(fontPath)
    \/ \E fontPath \in FontFiles : ReadMetadataAsync(fontPath)
    \/ ParseFont(FileA)

ProbeSpec == ProbeInit /\ [][ProbeNext]_vars

\* A FontScanner on its own, over a list its scan returns
FacadeInit ==
    /\ ModuleLoaded
    /\ fs \in {f \in FsStates : \A p \in FsPaths : f[p] = "ok"}
    /\ disk = DefaultDisk
    /\ probe = NoProbe
    /\ \E n \in 0..Len(ScannedFonts) :
          facade = [NoScanner EXCEPT !.fonts = SubSeq(ScannedFonts, 1, n)]

FacadeNext ==
    \/ \E format \in Formats : FilterByFormat(format)
    \/ \E weight \in Weights : FilterByWeight(weight)
    \/ OnlyMonospace
    \/ \E query \in Queries : SearchByName(query)
    \/ \E name \in Queries : MatchNameExactly(name)
    \/ GetFonts

FacadeSpec == FacadeInit /\ [][FacadeNext]_vars

\* A FontScanner with its options and filters set whose getResult() and
\* getResultAsync() are called
ResultInit ==
    /\ ModuleLoaded
    /\ fs \in FsStates
    /\ disk = DefaultDisk
    /\ probe = NoProbe
    /\ \E options \in ScanOptions, filters \in ResultFilters :
          facade = ResultScanner(options, filters)

ResultNext ==
    \/ \E d \in SyncDurations : GetResult(d)
    \/ GetResultAsync(1)
    \/ AsyncWalk(1)
    \/ AsyncRead(1)
    \/ AsyncBatchDone(1)
    \/ GetResultAsyncReturn(1)

ResultSpec == ResultInit /\ [][ResultNext]_vars

\* An asynchronous scan over a directory of 49 to MaxFiles font files
BatchInit ==
    /\ ModuleLoaded
    /\ fs \in {f \in FsStates : \A p \in FsPaths : f[p] = "ok"}
    /\ disk = DefaultDisk
    /\ probe = NoProbe
    /\ facade = NoScanner

BatchNext ==
    \/ \E options \in BatchOptions : AsyncStart(1, options)
    \/ AsyncWalk(1)
    \/ AsyncReadInOrder(1)
    \/ AsyncBatchDone(1)

BatchSpec == BatchInit /\ [][BatchNext]_vars

\* The directory walks on their own, to every depth up to the default
WalkInit ==
    /\ ModuleLoaded
    /\ fs \in FsStates
    /\ disk = DefaultDisk
    /\ probe = NoProbe
    /\ facade = NoScanner

WalkNext ==
    \/ \E dir \in WalkRoots, maxDepth \in 0..DefaultMaxDepth : WalkDir(dir, maxDepth)
    \/ \E dir \in WalkRoots, maxDepth \in 0..DefaultMaxDepth : WalkDirAsync(dir, maxDepth)

WalkSpec == WalkInit /\ [][WalkNext]_vars

-----------------------------------------------------------------------------
(* What the properties below speak of *)

\* The scan was called with useCache: false
CachingOff(options) == "useCache" \in DOMAIN options /\ options.useCache = FALSE

SyncReturned == syncCall.id # 0 /\ ~syncCall.threw

AsyncReturned(i) == async[i].pc = "done" /\ ~async[i].threw

\* The scans that have returned a result not served from the cache
FreshSync == SyncReturned /\ ~syncCall.fromCache

FreshAsync(i) == AsyncReturned(i) /\ ~async[i].fromCache

\* The scan started by the last step that started one
StartedCall ==
    IF syncCall.id = scans THEN syncCall
    ELSE async[CHOOSE i \in AsyncIds : async[i].id = scans]

CountPath(list, p) == Cardinality({k \in 1..Len(list) : list[k].path = p})

CountFile(fontFiles, p) == Cardinality({k \in 1..Len(fontFiles) : fontFiles[k] = p})

Accounted(fontFiles, result) ==
    /\ Len(result.fonts) + Len(result.errors) = Len(fontFiles)
    /\ \A k \in 1..Len(fontFiles) :
          CountPath(result.fonts, fontFiles[k]) + CountPath(result.errors, fontFiles[k])
              = CountFile(fontFiles, fontFiles[k])

Mixed(result) == Len(result.fonts) >= 1 /\ Len(result.errors) >= 1

-----------------------------------------------------------------------------
(* C1: in every scan not served from the cache, sync or async, every         *)
(* candidate path yields exactly one FontEntry or exactly one FontError:     *)
(* len(fonts) + len(errors) = number of candidate paths, path by path.       *)
C1_EveryCandidateAccounted ==
    /\ FreshSync => Accounted(syncCall.fontFiles, syncCall.result[1])
    /\ \A i \in AsyncIds : FreshAsync(i) => Accounted(async[i].fontFiles, async[i].result[1])

\* A synchronous and an asynchronous scan have both returned fonts and errors
C1_Witness ==
    /\ FreshSync /\ Mixed(syncCall.result[1])
    /\ \E i \in AsyncIds : FreshAsync(i) /\ Mixed(async[i].result[1])

(* C2: in the stats of every scan result not served from the cache,          *)
(* fontsFound + filesFailed = filesProcessed, sync and async.                *)
StatsAddUp(result) ==
    result.stats.fontsFound + result.stats.filesFailed = result.stats.filesProcessed

C2_StatsAddUp ==
    /\ FreshSync => StatsAddUp(syncCall.result[1])
    /\ \A i \in AsyncIds : FreshAsync(i) => StatsAddUp(async[i].result[1])

\* An asynchronous scan with successes and failures, and a synchronous scan
\* in which every file failed
C2_Witness ==
    /\ \E i \in AsyncIds :
          /\ FreshAsync(i)
          /\ async[i].result[1].stats.fontsFound >= 1
          /\ async[i].result[1].stats.filesFailed >= 1
    /\ FreshSync
    /\ syncCall.result[1].stats.filesProcessed >= 2
    /\ syncCall.result[1].stats.filesFailed = syncCall.result[1].stats.filesProcessed

(* C3: a caching-enabled scan is served from the cache if and only if a font *)
(* list is stored and now - cacheTimestamp < 300000 ms; with the elapsed     *)
(* time >= 300000 it is a miss; and isCacheValid() is true in exactly the    *)
(* states in which such a scan is a hit.                                     *)
C3_HitIffStoredAndFresh ==
    [][scans' # scans /\ ~CachingOff(StartedCall'.options)
         => /\ StartedCall'.fromCache <=> (fontCache # Null /\ clock - cacheTimestamp < 300000)
            /\ StartedCall'.fromCache <=> isCacheValid]_vars

\* A caching-enabled scan that started exactly 300000 ms after the scan that
\* filled the cache had started and returned, and was not served from the cache
C3_Witness ==
    /\ AsyncReturned(1) /\ async[1].id = 1 /\ ~CachingOff(async[1].options)
    /\ async[1].result[1].stats.scanTimeMs = 0
    /\ SyncReturned /\ syncCall.id = 2 /\ ~CachingOff(syncCall.options)
    /\ syncCall.now - async[1].now = 300000
    /\ ~syncCall.fromCache

(* C4: when a caching-enabled scan misses the cache and completes with font  *)
(* list X, then immediately after it returns the cache is valid and holds X, *)
(* however long the scan took.                                               *)
C4_StoredCacheIsValid ==
    [][/\ (scans' # scans /\ syncCall'.id = scans' /\ ~syncCall'.threw
              /\ ~syncCall'.fromCache /\ ~CachingOff(syncCall'.options))
          => (isCacheValid' /\ fontCache' = Some(syncCall'.result[1].fonts))
       /\ \A i \in AsyncIds :
             (/\ async[i].pc # "done" /\ async'[i].pc = "done"
              /\ ~async'[i].fromCache /\ ~CachingOff(async'[i].options))
             => (isCacheValid' /\ fontCache' = Some(async'[i].result[1].fonts))]_vars

(* C5: a scan served from the cache returns the stored font list as fonts,   *)
(* an empty errors list, and stats with directoriesScanned = 0, filesFailed  *)
(* = 0 and fontsFound = filesProcessed = length of the stored list, and      *)
(* leaves the stored list and its timestamp as they were.                    *)
C5_HitReturnsStoredList ==
    [][scans' # scans /\ StartedCall'.fromCache
         => LET r == StartedCall'.result[1]
            IN  /\ fontCache # Null
                /\ r.fonts = fontCache[1]
                /\ r.errors = <<>>
                /\ r.stats.directoriesScanned = 0
                /\ r.stats.filesFailed = 0
                /\ r.stats.fontsFound = Len(fontCache[1])
                /\ r.stats.filesProcessed = Len(fontCache[1])
                /\ fontCache' = fontCache
                /\ cacheTimestamp' = cacheTimestamp]_vars

\* An asynchronous scan was served the non-empty list a synchronous scan stored
C5_Witness ==
    /\ FreshSync /\ ~CachingOff(syncCall.options) /\ syncCall.id = 1
    /\ \E i \in AsyncIds :
          /\ AsyncReturned(i) /\ async[i].fromCache /\ async[i].id = 2
          /\ Len(async[i].result[1].fonts) >= 1
          /\ async[i].result[1].fonts = syncCall.result[1].fonts

(* C6: a scan called with useCache: false neither reads nor writes the       *)
(* cache: it is never served from the cache, also when a valid entry exists, *)
(* and no step of it changes the stored list or the timestamp.               *)
C6_CachingOffLeavesCache ==
    [][/\ (scans' # scans /\ CachingOff(StartedCall'.options))
          => /\ ~StartedCall'.fromCache
             /\ fontCache' = fontCache /\ cacheTimestamp' = cacheTimestamp
       /\ \A i \in AsyncIds :
             (async[i].pc \in {"walk", "read", "settled"} /\ CachingOff(async[i].options)
                 /\ async'[i] # async[i])
             => (fontCache' = fontCache /\ cacheTimestamp' = cacheTimestamp)]_vars

\* An asynchronous scan with useCache: false has returned a list other than
\* the stored one while the cache is valid
C6_Witness ==
    \E i \in AsyncIds :
        /\ FreshAsync(i) /\ CachingOff(async[i].options) /\ async[i].id = 2
        /\ isCacheValid
        /\ fontCache[1] # async[i].result[1].fonts

(* C7: after clearFontCache() the cache is absent: isCacheValid() is false   *)
(* and getCachedFontCount() is 0, whatever was stored and however recently.  *)
C7_ClearEmptiesCache ==
    [][clearFontCache => (~isCacheValid' /\ getCachedFontCount' = 0)]_vars

\* The cache was cleared at the very time a scan had stored a non-empty list
C7_Witness ==
    /\ freshDue /\ fontCache = Null
    /\ FreshSync /\ ~CachingOff(syncCall.options)
    /\ Len(syncCall.result[1].fonts) >= 1
    /\ syncCall.result[1].stats.scanTimeMs = 0
    /\ clock = syncCall.now

(* C8: after clearFontCache(), the next caching-enabled scan is not served   *)
(* from the cache, in every interleaving.                                    *)
C8_FreshScanAfterClear ==
    [][(scans' # scans /\ freshDue /\ ~CachingOff(StartedCall'.options))
          => ~StartedCall'.fromCache]_vars

(* C9: no scan throws or rejects, whatever readdir, stat and readFile do:    *)
(* every scan that was started has returned a result or has its next step   *)
(* enabled (a read in flight, or the results of the whole batch at hand),    *)
(* and in every scan not served from the cache every candidate file was      *)
(* processed, the files after a failing one included.                        *)
AllProcessed(fontFiles, result) ==
    /\ result.stats.filesProcessed = Len(fontFiles)
    /\ \A k \in 1..Len(fontFiles) :
          \/ \E j \in 1..Len(result.fonts) : result.fonts[j].path = fontFiles[k]
          \/ \E j \in 1..Len(result.errors) : result.errors[j].path = fontFiles[k]

C9_ScansNeverThrow ==
    /\ ~syncCall.threw
    /\ syncCall.id # 0 => syncCall.result # Null
    /\ FreshSync => AllProcessed(syncCall.fontFiles, syncCall.result[1])
    /\ \A i \in AsyncIds :
          /\ ~async[i].threw
          /\ async[i].pc = "done" => async[i].result # Null
          /\ FreshAsync(i) => AllProcessed(async[i].fontFiles, async[i].result[1])
          /\ async[i].pc \in {"idle", "walk", "read", "settled", "done"}
          /\ async[i].pc = "read"
                => async[i].pending # {} /\ async[i].pending \subseteq 1..Len(async[i].fontFiles)
          /\ async[i].pc = "settled"
                => DOMAIN async[i].batchResults
                      = (async[i].i + 1)..Min(async[i].i + batchSize, Len(async[i].fontFiles))

\* A synchronous scan whose first candidate failed and whose later candidates
\* were processed, in a file system with an unreadable file and a missing one
C9_Witness ==
    /\ FreshSync /\ Len(syncCall.fontFiles) >= 3
    /\ Len(syncCall.result[1].errors) >= 2
    /\ syncCall.result[1].errors[1].path = syncCall.fontFiles[1]
    /\ Len(syncCall.result[1].fonts) >= 1
    /\ syncCall.result[1].fonts[1].path = syncCall.fontFiles[3]

(* C10: when stat or readFile of a candidate fails, the FontError of that    *)
(* path has the code of the failure: FILE_NOT_FOUND for a missing file,      *)
(* PERMISSION_DENIED for a permission failure, UNKNOWN for another I/O       *)
(* failure; PARSE_ERROR only for a file that was read.                       *)
CodeOf(outcome) ==
    CASE outcome = "ENOENT" -> "FILE_NOT_FOUND"
      [] outcome = "EACCES" -> "PERMISSION_DENIED"
      [] outcome = "ok" -> "PARSE_ERROR"
      [] OTHER -> "UNKNOWN"

Classified(result) ==
    \A j \in 1..Len(result.errors) :
        result.errors[j].code = CodeOf(Outcome(result.errors[j].path))

C10_ErrorCodeClassifiesFailure ==
    /\ FreshSync => Classified(syncCall.result[1])
    /\ \A i \in AsyncIds : FreshAsync(i) => Classified(async[i].result[1])

-----------------------------------------------------------------------------
(* What the properties of the metadata functions speak of *)

ProbedRead == probe.op \in {"readFontMetadataSync", "readFontMetadataAsync"}

\* The lower-cased extension of a path
ExtOf(fontPath) == ToLowerCase(ExtName(Last(fontPath)))

\* The file is not ttf/otf/ttc, or its name table yields no name
NoTableName(fontPath) ==
    \/ ExtOf(fontPath) \notin TableFormats
    \/ parseTTFOTFFont(Content(fontPath)).value = Null
    \/ ~Truthy(parseTTFOTFFont(Content(fontPath)).value[1], "name")

IsPrefix(p, s) == Len(p) <= Len(s) /\ SubSeq(s, 1, Len(p)) = p

\* The base name of a path with its extension, in whatever case, removed
StripExtension(base) == SubSeq(base, 1, Len(base) - Len(ExtName(base)))

(* C11: metadata synthesis returns no entry only when stat or readFile       *)
(* fails; for every content of a file that was read (shorter than 12 bytes,  *)
(* a zero-filled header, truncated, offsets and lengths out of range) it     *)
(* returns an entry with a non-empty name, taken from the file name when the *)
(* tables yield none, and never throws.                                      *)
C11_EntryUnlessReadFails ==
    ProbedRead =>
        /\ ~probe.returned.threw
        /\ (probe.returned.value = Null) <=> (Outcome(probe.path) # "ok")
        /\ probe.returned.value # Null =>
              /\ Truthy(probe.returned.value[1], "name")
              /\ NoTableName(probe.path) =>
                    IsPrefix(probe.returned.value[1].name, Last(probe.path))

\* A.ttf holding 11 bytes was read and gave an entry named after the file
C11_Witness ==
    /\ probe.op = "readFontMetadataSync" /\ probe.path = FileA
    /\ Len(disk[FileA]) = 11
    /\ probe.returned.value # Null
    /\ probe.returned.value[1].name = <<65>>

(* C12: every entry of a file that is not ttf/otf/ttc, or whose name table   *)
(* yields no name, has name = family = the base name of the file with its    *)
(* extension removed, in whatever case the extension is spelled.             *)
FallbackNamed(fonts) ==
    \A j \in 1..Len(fonts) :
        NoTableName(fonts[j].path) =>
            /\ fonts[j].name = StripExtension(Last(fonts[j].path))
            /\ "family" \in DOMAIN fonts[j] /\ fonts[j].family = fonts[j].name

C12_FallbackNameIsBaseName ==
    /\ FreshSync => FallbackNamed(syncCall.result[1].fonts)
    /\ \A i \in AsyncIds : FreshAsync(i) => FallbackNamed(async[i].result[1].fonts)

(* C13: the entry of a ttf/otf/ttc file that was read has isMonospace = true *)
(* if and only if the PANOSE proportion byte of its OS/2 table (offset + 35) *)
(* is 9 or isFixedPitch of its post table (u32 at offset + 12) is not zero;  *)
(* otherwise isMonospace is absent; it is never false.                       *)
DirEntryAt(buffer, i) ==
    [tag |-> SubSeq(buffer, 12 + 16 * i + 1, 12 + 16 * i + 4),
     offset |-> ReadUInt32BE(buffer, 12 + 16 * i + 8)[1],
     length |-> ReadUInt32BE(buffer, 12 + 16 * i + 12)[1]]

\* The entries of the table directory that the buffer holds
DirEntries(buffer) ==
    IF Len(buffer) < 12 THEN {}
    ELSE {DirEntryAt(buffer, i) :
             i \in {k \in 0..(Len(buffer) \div 16) :
                       k < ReadUInt16BE(buffer, 4)[1] /\ 12 + 16 * k + 16 <= Len(buffer)}}

DeclaresMonospace(buffer) ==
    \E e \in DirEntries(buffer) :
        \/ /\ e.tag = <<79, 83, 47, 50>>
           /\ InRange(buffer, e.offset + 35, 1) /\ buffer[e.offset + 35 + 1] = 9
        \/ /\ e.tag = <<112, 111, 115, 116>>
           /\ InRange(buffer, e.offset + 12, 4)
           /\ ReadUInt32BE(buffer, e.offset + 12)[1] # 0

C13_MonospaceIffDeclared ==
    (ProbedRead /\ ExtOf(probe.path) \in TableFormats /\ probe.returned.value # Null) =>
        /\ ("isMonospace" \in DOMAIN probe.returned.value[1])
              <=> DeclaresMonospace(Content(probe.path))
        /\ "isMonospace" \in DOMAIN probe.returned.value[1]
              => probe.returned.value[1].isMonospace = TRUE

(* C14: within one scan result no two FontEntry records have the same path,  *)
(* whatever root directories the scan is given, a custom directory inside    *)
(* another scanned root included.                                            *)
UniquePaths(fonts) ==
    \A j, k \in 1..Len(fonts) : j # k => fonts[j].path # fonts[k].path

C14_PathsUnique ==
    /\ SyncReturned => UniquePaths(syncCall.result[1].fonts)
    /\ \A i \in AsyncIds : AsyncReturned(i) => UniquePaths(async[i].result[1].fonts)

(* C18: for the same candidate files and the same read outcomes, the         *)
(* asynchronous scan and the synchronous scan return set-equal fonts lists   *)
(* and set-equal errors lists, in whatever order the reads of a batch        *)
(* complete.                                                                 *)
SetOf(list) == {list[k] : k \in 1..Len(list)}

C18_AsyncMatchesSync ==
    \A i \in AsyncIds :
        (FreshSync /\ FreshAsync(i) /\ async[i].fontFiles = syncCall.fontFiles) =>
            /\ SetOf(async[i].result[1].fonts) = SetOf(syncCall.result[1].fonts)
            /\ SetOf(async[i].result[1].errors) = SetOf(syncCall.result[1].errors)

\* Both scans went over the same three or more candidates, with fonts and
\* errors, one of the fonts named after its file
C18_Witness ==
    \E i \in AsyncIds :
        /\ FreshSync /\ FreshAsync(i) /\ async[i].fontFiles = syncCall.fontFiles
        /\ Len(syncCall.fontFiles) >= 3
        /\ Mixed(async[i].result[1])
        /\ \E j \in 1..Len(async[i].result[1].fonts) :
              NoTableName(async[i].result[1].fonts[j].path)

(* C19: the cache is never torn: every step that changes the stored list or *)
(* the stored timestamp writes both, as one clear (null and 0) or as the     *)
(* store of one scan (its fonts and its own start time), so that no          *)
(* operation running between two steps sees the list of one scan with the    *)
(* timestamp of another.                                                     *)
C19_CacheWrittenWhole ==
    [][(fontCache' # fontCache \/ cacheTimestamp' # cacheTimestamp) =>
          \/ fontCache' = Null /\ cacheTimestamp' = 0
          \/ /\ scans' # scans /\ syncCall'.id = scans' /\ syncCall'.result # Null
             /\ fontCache' = Some(syncCall'.result[1].fonts)
             /\ cacheTimestamp' = syncCall'.now
          \/ \E i \in AsyncIds :
                /\ async[i].pc # "done" /\ async'[i].pc = "done"
                /\ fontCache' = Some(async'[i].fonts)
                /\ cacheTimestamp' = async'[i].now]_vars

\* The store of an asynchronous scan has replaced the list and the timestamp
\* a synchronous scan had stored, both different from its own
C19_Witness ==
    \E i \in AsyncIds :
        /\ FreshAsync(i) /\ ~CachingOff(async[i].options) /\ async[i].id = 2
        /\ FreshSync /\ ~CachingOff(syncCall.options)
        /\ syncCall.now # async[i].now
        /\ syncCall.result[1].fonts # async[i].result[1].fonts
        /\ fontCache = Some(async[i].result[1].fonts)
        /\ cacheTimestamp = async[i].now

(* C20: every byte the parser reads lies inside the buffer, for every        *)
(* truncation of a font and every offset, count and length field: no read    *)
(* outside the buffer is attempted, so the parser never leaves through its   *)
(* catch, and a table whose guard fails contributes nothing or a part.       *)
C20_ReadsInsideBuffer ==
    probe.op = "parseTTFOTFFont" =>
        /\ ~probe.returned.outOfRange
        /\ (probe.returned.value = Null) <=> (Len(Content(probe.path)) < 12)

\* A font cut inside its OS/2 table was parsed: the weight and the PANOSE
\* byte were read, fsSelection was not
C20_Witness ==
    /\ probe.op = "parseTTFOTFFont"
    /\ Len(Content(probe.path)) = 140
    /\ probe.returned.value # Null
    /\ "weight" \in DOMAIN probe.returned.value[1]
    /\ "isMonospace" \in DOMAIN probe.returned.value[1]
    /\ "style" \notin DOMAIN probe.returned.value[1]

-----------------------------------------------------------------------------
(* What the properties of the FontScanner filters speak of *)

\* The predicate one filter call stands for
Satisfies(font, call) ==
    CASE call.method = "filterByFormat" ->
            "format" \in DOMAIN font /\ ToLowerCase(font.format) = ToLowerCase(call.arg)
      [] call.method = "filterByWeight" ->
            "weight" \in DOMAIN font /\ font.weight = call.arg[1]
      [] call.method = "onlyMonospace" ->
            "isMonospace" \in DOMAIN font /\ font.isMonospace = TRUE
      [] call.method = "searchByName" ->
            \/ Includes(ToLowerCase(font.name), ToLowerCase(call.arg))
            \/ "family" \in DOMAIN font
                  /\ Includes(ToLowerCase(font.family), ToLowerCase(call.arg))
      [] call.method = "matchNameExactly" ->
            \/ ToLowerCase(font.name) = ToLowerCase(call.arg)
            \/ "family" \in DOMAIN font
                  /\ ToLowerCase(font.family) = ToLowerCase(call.arg)

\* The kind of predicate a call contributes: the two name filters are the
\* one kind "name match"
KindOf(call) ==
    CASE call.method = "filterByFormat" -> "format"
      [] call.method = "filterByWeight" -> "weight"
      [] call.method = "onlyMonospace" -> "monospace"
      [] OTHER -> "name"

DistinctKinds(calls) ==
    \A j, k \in 1..Len(calls) : j # k => KindOf(calls[j]) # KindOf(calls[k])

ApplyCall(filters, call) ==
    CASE call.method = "filterByFormat" -> filterByFormat(filters, call.arg)
      [] call.method = "filterByWeight" -> filterByWeight(filters, call.arg[1])
      [] call.method = "onlyMonospace" -> onlyMonospace(filters)
      [] call.method = "searchByName" -> searchByName(filters, call.arg)
      [] call.method = "matchNameExactly" -> matchNameExactly(filters, call.arg)

RECURSIVE Chain(_, _, _)
\* _filters after the calls, made in the order order[1], order[2], ...
Chain(calls, order, n) ==
    IF n = 0 THEN Empty ELSE ApplyCall(Chain(calls, order, n - 1), calls[order[n]])

(* C15: the fonts a FontScanner returns are exactly those of its list that   *)
(* satisfy the predicate of every filter call made on it, calls of the same  *)
(* kind made more than once included; with no call the list is returned      *)
(* unchanged.                                                                *)
C15_ConjunctionOfAllCalls ==
    facade.returned # Null =>
        facade.returned[1] =
            SelectSeq(facade.fonts, LAMBDA font :
                \A k \in 1..Len(facade.calls) : Satisfies(font, facade.calls[k]))

(* C16: the result does not depend on the order of the calls: whenever the   *)
(* calls made are of distinct kinds (format, weight, monospace, name match), *)
(* making them in any other order returns the same set of fonts.             *)
C16_OrderIndependent ==
    (facade.returned # Null /\ DistinctKinds(facade.calls)) =>
        \A order \in Permutations(1..Len(facade.calls)) :
            SetOf(applyFilters(Chain(facade.calls, order, Len(facade.calls)), facade.fonts))
                = SetOf(facade.returned[1])

\* Three filters of distinct kinds, the weight one called first and the
\* format one last, have kept some fonts and dropped others
C16_Witness ==
    /\ facade.returned # Null
    /\ Len(facade.calls) = 3 /\ DistinctKinds(facade.calls)
    /\ facade.calls[1].method = "filterByWeight"
    /\ facade.calls[3].method = "filterByFormat"
    /\ Len(facade.returned[1]) >= 1
    /\ Len(facade.returned[1]) < Len(facade.fonts)

(* C17: searchByName(q) keeps a font iff q, case-insensitively, is a         *)
(* substring of its name or of its family; matchNameExactly(q) keeps it iff  *)
(* q equals its name or its family; a font with no family is kept iff its    *)
(* name matches; filterByFormat compares the format case-insensitively.      *)
C17_NameOrFamilyMatch ==
    (/\ facade.returned # Null /\ Len(facade.calls) = 1
     /\ facade.calls[1].method \in {"searchByName", "matchNameExactly", "filterByFormat"}) =>
        \A k \in 1..Len(facade.fonts) :
            (\E j \in 1..Len(facade.returned[1]) : facade.returned[1][j] = facade.fonts[k])
                <=> Satisfies(facade.fonts[k], facade.calls[1])

\* matchNameExactly("AB") has kept "Ab" by its name and "Xy" by its family,
\* and dropped "Cd", which has no family
C17_Witness ==
    /\ facade.returned # Null
    /\ facade.calls = << [method |-> "matchNameExactly", arg |-> <<65, 66>>] >>
    /\ facade.fonts = ScannedFonts
    /\ facade.returned[1] = << ScannedFonts[1], ScannedFonts[4] >>

-----------------------------------------------------------------------------
(* What the properties of the name table speak of *)

ProbedParse == probe.op = "parseTTFOTFFont"

\* The buffer is a font with one table, a name table at offset 28
IsNameFont(buffer) ==
    /\ Len(buffer) >= 34
    /\ ReadUInt16BE(buffer, 4) = Some(1)
    /\ SubSeq(buffer, 13, 16) = <<110, 97, 109, 101>>
    /\ ReadUInt32BE(buffer, 20) = Some(28)

\* The records of the name table of such a font, in the order of the file:
\* the nameID, whether the bytes of the string lie inside the file, and the
\* bytes
RecordsIn(buffer) ==
    LET count == ReadUInt16BE(buffer, 30)[1]
        storage == 28 + ReadUInt16BE(buffer, 32)[1]
    IN  [k \in 1..count |->
            LET r == 34 + 12 * (k - 1)
                length == ReadUInt16BE(buffer, r + 8)[1]
                start == storage + ReadUInt16BE(buffer, r + 10)[1]
            IN  [nameID |-> ReadUInt16BE(buffer, r + 6)[1],
                 inside |-> start + length <= Len(buffer),
                 bytes |-> IF start + length <= Len(buffer)
                           THEN SubSeq(buffer, start + 1, start + length) ELSE <<>>]]

\* The field a nameID maps to
FieldOf(nameID) ==
    CASE nameID = 0 -> "copyright"
      [] nameID = 1 -> "family"
      [] nameID = 4 -> "name"
      [] nameID = 5 -> "version"
      [] OTHER -> ""

\* The text the bytes of a string stand for: big-endian 16-bit units, the
\* zero units left out, white space at both ends removed
TextOf(bytes) ==
    CASE bytes = <<0, 65, 0, 98>> -> <<65, 98>>
      [] bytes = <<0, 32, 0, 88, 0, 0, 0, 121, 0, 9>> -> <<88, 121>>
      [] bytes = <<1, 0, 216, 61>> -> <<256, 55357>>
      [] bytes = <<0, 67, 0>> -> <<67>>
      [] bytes = <<>> -> <<>>
      [] bytes = <<0, 32, 0, 0>> -> <<>>

\* The records inside the file that map to the field
RecordsOf(buffer, field) ==
    SelectSeq(RecordsIn(buffer), LAMBDA r : r.inside /\ FieldOf(r.nameID) = field)

\* Those of them whose text is not empty
WritersOf(buffer, field) ==
    SelectSeq(RecordsOf(buffer, field), LAMBDA r : TextOf(r.bytes) # <<>>)

NameFields == {"copyright", "family", "name", "version"}

(* C21 as stated: when several name records map to the same field, the       *)
(* field's final value is the decoded string of the last of them in the      *)
(* order of the file, whatever that string is.                               *)
C21_LastRecordWins ==
    (ProbedParse /\ IsNameFont(Content(probe.path))) =>
        \A field \in NameFields :
            LET recs == RecordsOf(Content(probe.path), field)
            IN  Len(recs) >= 2 =>
                   /\ field \in DOMAIN probe.returned.value[1]
                   /\ probe.returned.value[1][field] = TextOf(Last(recs).bytes)

(* C21: when several name records map to the same field, the field's final   *)
(* value is the decoded string of the last of them, in the order of the      *)
(* file, whose decoded string is not empty; a later record with an empty     *)
(* string leaves the field as it was, and the field is absent when every     *)
(* such record has an empty string.                                          *)
C21_LastNonEmptyRecordWins ==
    (ProbedParse /\ IsNameFont(Content(probe.path))) =>
        \A field \in NameFields :
            LET recs == RecordsOf(Content(probe.path), field)
                writers == WritersOf(Content(probe.path), field)
            IN  Len(recs) >= 2 =>
                   IF writers = <<>> THEN field \notin DOMAIN probe.returned.value[1]
                   ELSE /\ field \in DOMAIN probe.returned.value[1]
                        /\ probe.returned.value[1][field] = TextOf(Last(writers).bytes)

\* Two records with nameID 4, "Ab" and after it " X\0y\t": the name is "Xy"
C21_Witness ==
    /\ ProbedParse
    /\ Content(probe.path) =
          NameFont(<< [nameID |-> 4, bytes |-> <<0, 65, 0, 98>>, inside |-> TRUE],
                      [nameID |-> 4, bytes |-> <<0, 32, 0, 88, 0, 0, 0, 121, 0, 9>>,
                       inside |-> TRUE] >>)
    /\ probe.returned.value = Some([name |-> <<88, 121>>])

(* C22 as stated: for a buffer whose name table holds one in-bounds record   *)
(* with nameID n, the decoder sets copyright (0), family (1), name (4) or    *)
(* version (5) to the record's bytes decoded as big-endian 16-bit units with *)
(* zero units skipped and white space trimmed, whatever the decoded string,  *)
(* and no field for another nameID; records outside the buffer are skipped.  *)
C22_FieldIsDecodedString ==
    (ProbedParse /\ IsNameFont(Content(probe.path))) =>
        LET inside == SelectSeq(RecordsIn(Content(probe.path)), LAMBDA r : r.inside)
        IN  Len(inside) = 1 =>
               probe.returned.value =
                   Some(IF FieldOf(inside[1].nameID) = "" THEN Empty
                        ELSE [f \in {FieldOf(inside[1].nameID)} |-> TextOf(inside[1].bytes)])

(* C22: for a buffer whose name table holds one in-bounds record with nameID *)
(* n whose decoded string is not empty, the decoder sets copyright (0),      *)
(* family (1), name (4) or version (5) to exactly the record's bytes decoded *)
(* as big-endian 16-bit units with zero units skipped and white space        *)
(* trimmed; it sets no field for another nameID or for an empty decoded      *)
(* string; a record whose bytes fall outside the buffer is skipped, and the  *)
(* records after it are still decoded.                                       *)
C22_FieldIsNonEmptyDecodedString ==
    (ProbedParse /\ IsNameFont(Content(probe.path))) =>
        LET inside == SelectSeq(RecordsIn(Content(probe.path)), LAMBDA r : r.inside)
        IN  Len(inside) = 1 =>
               probe.returned.value =
                   Some(IF FieldOf(inside[1].nameID) = "" \/ TextOf(inside[1].bytes) = <<>>
                        THEN Empty
                        ELSE [f \in {FieldOf(inside[1].nameID)} |-> TextOf(inside[1].bytes)])

\* A record that points outside the file and after it a record with nameID 1
\* and the bytes of " X\0y\t": the family is "Xy" and nothing else is set
C22_Witness ==
    /\ ProbedParse
    /\ Content(probe.path) =
          NameFont(<< [nameID |-> 4, bytes |-> <<0, 65, 0, 98>>, inside |-> FALSE],
                      [nameID |-> 1, bytes |-> <<0, 32, 0, 88, 0, 0, 0, 121, 0, 9>>,
                       inside |-> TRUE] >>)
    /\ probe.returned.value = Some([family |-> <<88, 121>>])

(* C23: when the table directory lists the same tag (name, OS/2 or post)     *)
(* more than once, only the first occurrence is used: the metadata is what   *)
(* the font gives when the later entry with that tag names no table.         *)
IsTagFont(buffer) ==
    /\ Len(buffer) >= 44
    /\ ReadUInt16BE(buffer, 4) = Some(2)
    /\ SubSeq(buffer, 13, 16) = SubSeq(buffer, 29, 32)

C23_FirstTagWins ==
    (ProbedParse /\ IsTagFont(Content(probe.path))) =>
        probe.returned.value
            = parseTTFOTFFont(Overwrite(Content(probe.path), 28, <<0, 0, 0, 0>>)).value

(* C24: for an OS/2 table at offset o in a buffer of length L: if o + 8 > L  *)
(* it produces no field; otherwise weight is the u16 at o + 4, copied as it  *)
(* is, with no clamping to 100..900; style is produced iff o + 64 <= L and   *)
(* is 'italic' when bit 0 of the u16 at o + 62 is set and 'normal'           *)
(* otherwise; 'oblique' is never produced.                                   *)
OS2Entries(buffer) == {e \in DirEntries(buffer) : e.tag = <<79, 83, 47, 50>>}

C24_WeightVerbatimStyleFromBit0 ==
    (ProbedParse /\ probe.returned.value # Null) =>
        \A e \in OS2Entries(Content(probe.path)) :
            Cardinality(OS2Entries(Content(probe.path))) = 1 =>
                LET buffer == Content(probe.path)
                    o == e.offset
                    metadata == probe.returned.value[1]
                IN  /\ ("weight" \in DOMAIN metadata) <=> (o + 8 <= Len(buffer))
                    /\ "weight" \in DOMAIN metadata =>
                          metadata.weight = buffer[o + 5] * 256 + buffer[o + 6]
                    /\ ("style" \in DOMAIN metadata) <=> (o + 64 <= Len(buffer))
                    /\ "style" \in DOMAIN metadata =>
                          metadata.style = IF buffer[o + 64] % 2 = 1 THEN "italic" ELSE "normal"
                    /\ (o + 8 > Len(buffer) /\ Cardinality(DirEntries(buffer)) = 1) =>
                          metadata = Empty

\* An OS/2 table with usWeightClass 1000 and the oblique bit of fsSelection
\* set was parsed: the weight is 1000 and the style normal
C24_Witness ==
    /\ ProbedParse
    /\ Content(probe.path) = OneTableFont(<<79, 83, 47, 50>>, OS2TableOf(1000, 0, 512))
    /\ probe.returned.value = Some([weight |-> 1000, style |-> "normal"])

(* C29: when a ttf/otf/ttc file yields no name from its name table, the      *)
(* filename fallback discards every decoded table field: the entry holds     *)
(* path, format, fileSize, lastModified, name and family and nothing else,   *)
(* so weight, style, version, copyright and isMonospace are absent even if   *)
(* the OS/2, post or name tables supplied them.                              *)
C29_FallbackDropsTableFields ==
    (/\ ProbedRead /\ probe.returned.value # Null
     /\ ExtOf(probe.path) \in TableFormats /\ NoTableName(probe.path)) =>
        DOMAIN probe.returned.value[1]
            = {"path", "format", "fileSize", "lastModified", "name", "family"}

\* A.ttf holds a whole font with the family "Cd", an OS/2 and a post table
\* and no full name: its entry is named "A", of family "A", and has no
\* field of the tables
C29_Witness ==
    /\ probe.op = "readFontMetadataAsync" /\ probe.path = FileA
    /\ Content(FileA) = TestFont(FALSE, 9, 1)
    /\ DOMAIN parseTTFOTFFont(Content(FileA)).value[1]
          = {"family", "weight", "style", "isMonospace"}
    /\ probe.returned.value # Null
    /\ probe.returned.value[1].name = <<65>>
    /\ probe.returned.value[1].family = <<65>>
    /\ "weight" \notin DOMAIN probe.returned.value[1]

-----------------------------------------------------------------------------
(* C27: the cache is not keyed by scan options: a caching-enabled scan that  *)
(* starts while the cache is valid is served from it and returns the font    *)
(* list of the caching-enabled scan that completed last, whatever            *)
(* customDirs, includeSystemFonts and includeUserFonts either scan had.      *)
C27_CacheIgnoresOptions ==
    [][(scans' # scans /\ ~CachingOff(StartedCall'.options) /\ isCacheValid)
          => /\ StartedCall'.fromCache
             /\ lastStored.id # 0
             /\ lastStored.id < StartedCall'.id
             /\ StartedCall'.result[1].fonts = lastStored.fonts]_vars

\* What a scan with the options finds when it goes through the files
FontsFound(options) ==
    syncFiles(syncWalk(getPlatformFontDirs(options), 1,
                       [threw |-> FALSE, fontFiles |-> <<>>, directoriesScanned |-> 0]).fontFiles,
              1, [fonts |-> <<>>, errors |-> <<>>, filesProcessed |-> 0, filesFailed |-> 0]).fonts

\* A scan of the one custom directory, without the user fonts, was served the
\* list stored by a scan of the default directories, which is not what its
\* own directories hold
C27_Witness ==
    /\ syncCall.id = 2 /\ syncCall.fromCache
    /\ lastStored.id = 1
    /\ lastStored.options = [customDirs |-> <<>>]
    /\ syncCall.options = [customDirs |-> <<TrueTypeDir>>, includeUserFonts |-> FALSE]
    /\ syncCall.result[1].fonts = lastStored.fonts
    /\ syncCall.result[1].fonts # FontsFound(syncCall.options)

(* C28: when two caching-enabled asynchronous scans overlap, both miss the   *)
(* cache and both store their result: the one that completes writes its      *)
(* fonts and its own start time over what the other stored, so that after    *)
(* both completed the cache holds the list and the start time of the scan    *)
(* that completed last, and the stored timestamp can move backwards.         *)
C28_OverlappingScansBothStore ==
    [][(/\ async[1].id # 0 /\ async[2].id = async[1].id + 1
        /\ ~CachingOff(async[1].options) /\ ~CachingOff(async[2].options))
          => /\ ~async[1].fromCache /\ ~async[2].fromCache
             /\ \A j \in {1, 2} :
                   (async[j].pc # "done" /\ async'[j].pc = "done")
                      => /\ fontCache' = Some(async'[j].result[1].fonts)
                         /\ cacheTimestamp' = async'[j].now
                         /\ lastStored'.id = async'[j].id]_vars

\* The scan that started first completed last: the cache holds its list, not
\* that of the other, and its start time, which is before the start time the
\* other had stored
C28_Witness ==
    /\ async[1].id = 1 /\ async[2].id = 2
    /\ ~CachingOff(async[1].options) /\ ~CachingOff(async[2].options)
    /\ FreshAsync(1) /\ FreshAsync(2)
    /\ async[1].now < async[2].now
    /\ async[1].result[1].fonts # async[2].result[1].fonts
    /\ lastStored.id = 1
    /\ fontCache = Some(async[1].result[1].fonts)
    /\ cacheTimestamp = async[1].now

-----------------------------------------------------------------------------
(* C26: directory traversal (walkDir and walkDirAsync) terminates on every   *)
(* directory structure, trees of any depth and cycles included, and collects *)
(* font files only from the root directory and from directories at most 2    *)
(* levels below it (recursion depth limit 3): a collected file lies at most  *)
(* maxDepth path segments below the root, and a symbolic link is not         *)
(* followed.                                                                 *)
ProbedWalk == probe.op \in {"walkDir", "walkDirAsync"}

C26_WalkBoundedByDepth ==
    ProbedWalk =>
        \A k \in 1..Len(probe.returned) :
            /\ IsPrefix(probe.dir, probe.returned[k])
            /\ Len(probe.returned[k]) - Len(probe.dir) >= 1
            /\ Len(probe.returned[k]) - Len(probe.dir) <= probe.maxDepth
            /\ s_self \notin {probe.returned[k][j] : j \in 1..Len(probe.returned[k])}

\* The walk of /deep with the default depth has returned with the font files
\* of /deep/d/d, /deep/d and /deep
C26_Witness ==
    /\ probe.op = "walkDirAsync" /\ probe.dir = Deep /\ probe.maxDepth = 3
    /\ probe.returned = << <<s_deep, s_d, s_d, s_A_ttf>>, <<s_deep, s_d, s_A_ttf>>,
                           <<s_deep, s_A_ttf>> >>

-----------------------------------------------------------------------------
(* C25: in the asynchronous scan at most 50 per-file metadata reads are in   *)
(* flight at any moment; the reads in flight are those of one batch, and     *)
(* when a batch is started the result of every file before it has been       *)
(* collected, so that no read of batch k+1 starts before every read of batch *)
(* k has completed; every candidate file belongs to exactly one batch: it is *)
(* read once and yields one font or one error.                               *)
C25_BatchesOfFifty ==
    \A i \in AsyncIds :
        /\ Cardinality(async[i].pending) <= 50
        /\ async[i].pending
              \subseteq (async[i].i + 1)..Min(async[i].i + 50, Len(async[i].fontFiles))
        /\ async[i].pc \in {"read", "settled"} =>
              /\ async[i].i % 50 = 0
              /\ Len(async[i].fonts) + Len(async[i].errors) = async[i].i
              /\ async[i].filesProcessed = Min(async[i].i + 50, Len(async[i].fontFiles))
              /\ DOMAIN async[i].batchResults \cup async[i].pending
                    = (async[i].i + 1)..Min(async[i].i + 50, Len(async[i].fontFiles))
        /\ FreshAsync(i) =>
              /\ Accounted(async[i].fontFiles, async[i].result[1])
              /\ async[i].result[1].stats.filesProcessed = Len(async[i].fontFiles)

\* A scan over 101 candidates has collected its first batch and has the 50
\* reads of its second batch in flight
C25_Witness ==
    /\ async[1].pc = "read"
    /\ Len(async[1].fontFiles) > 100
    /\ async[1].i = 50
    /\ Cardinality(async[1].pending) = 50
    /\ Len(async[1].fonts) = 50

\* The last result the scanner handed out and what the scan behind it returned
ResultReturned == facade.returned # Null /\ facade.scanned # Null

(* C30: getResult() and getResultAsync() apply the filters only to the fonts *)
(* list.  The errors and the stats of the result are those the scan          *)
(* returned, so stats.fontsFound is the length of the unfiltered list and    *)
(* can exceed the length of the returned fonts, which are the scanned fonts  *)
(* that pass the filters, in their order; and filtering never changes the    *)
(* contents of the cached font list: after a result of a caching scan the    *)
(* cache holds the unfiltered list, and the step at which getResultAsync()   *)
(* filters leaves the cache as it is.                                        *)
C30_FiltersOnlyFonts ==
    ResultReturned =>
        LET returned == facade.returned[1]
            scanned == facade.scanned[1]
            last == facade.calls[Len(facade.calls)].method
        IN  /\ returned.errors = scanned.errors
            /\ returned.stats = scanned.stats
            /\ returned.stats.fontsFound = Len(scanned.fonts)
            /\ Len(returned.fonts) <= returned.stats.fontsFound
            /\ returned.fonts
                  = SelectSeq(scanned.fonts, LAMBDA font :
                        \E k \in 1..Len(returned.fonts) : returned.fonts[k] = font)
            /\ facade.filters = Empty => returned.fonts = scanned.fonts
            /\ last = "getResult" => syncCall.result = facade.scanned
            /\ last = "getResultAsync" /\ async[1].id = facade.scan =>
                  async[1].result = facade.scanned
            /\ useCacheEnabled(facade.options) => fontCache = Some(scanned.fonts)

\* A caching scan found two fonts and one error; the scanner returned one of
\* the fonts, the error and fontsFound = 2, and the cache holds both fonts
C30_Witness ==
    /\ ResultReturned
    /\ facade.calls[Len(facade.calls)].method = "getResultAsync"
    /\ Len(facade.returned[1].fonts) = 1
    /\ facade.returned[1].stats.fontsFound = 2
    /\ Len(facade.returned[1].errors) = 1
    /\ fontCache # Null
    /\ Len(fontCache[1]) = 2

====
